---------------------------- MODULE Spec2Model ----------------------------
(***************************************************************************)
(* Model of the MCP protocol core of backend/app/mcp:                      *)
(*   - adapters/base.py   ProtocolVersionRegistry                          *)
(*   - negotiation.py     MCPProtocolNegotiator                            *)
(*   - server.py          MCPConnection, MCPServer                         *)
(*   - monitoring.py      MCPMonitor                                       *)
(*   - adapters/mcp_v1.py MCPv1Adapter                                     *)
(*                                                                         *)
(* Version strings are TLA+ strings; Chars gives the characters of each    *)
(* one, so that str.split, int() and the two orders the code uses (plain   *)
(* string order and the numeric sort key) are computed, not assumed.       *)
(***************************************************************************)
EXTENDS Integers, Sequences, FiniteSets, TLC

VARIABLES
    adapters,              \* ProtocolVersionRegistry._adapters, in insertion order
    compatibility_matrix,  \* MCPProtocolNegotiator._compatibility_matrix
    neg_caps,              \* the capability document of the last negotiate_protocol call
    neg_result,            \* what that call returned or raised
    connections,           \* MCPServer._connections: its keys, in insertion order
    total_connections,     \* MCPServer._total_connections
    total_messages,        \* MCPServer._total_messages
    task,                  \* one handle_connection coroutine per transport
    mon_connections,       \* MCPMonitor._connections
    connection_history,    \* MCPMonitor._connection_history
    tool_metrics,          \* MCPMonitor._tool_metrics
    protocol_metrics,      \* MCPMonitor._protocol_metrics
    calls,                 \* the calls the monitor specification has made, oldest first
    registry_compatibility_matrix, \* ProtocolVersionRegistry._compatibility_matrix
    now,                   \* datetime.utcnow(), in seconds
    broadcast,             \* the broadcast_message coroutine
    best,                  \* the last find_best_version call and what it returned
    connections_lock,      \* MCPServer._connections_lock: None, or its holder
    alert_thresholds       \* MCPMonitor._alert_thresholds

vars == <<adapters, compatibility_matrix, neg_caps, neg_result, connections,
          total_connections, total_messages, task, mon_connections,
          connection_history, tool_metrics, protocol_metrics, calls,
          registry_compatibility_matrix, now, broadcast, best,
          connections_lock, alert_thresholds>>

registryVars == <<adapters, compatibility_matrix, registry_compatibility_matrix>>
negVars == <<neg_caps, neg_result, best>>
serverVars == <<connections, total_connections, total_messages, task,
                connections_lock>>
serverCounters == <<connections, total_connections, total_messages,
                    connections_lock>>
monitorVars == <<mon_connections, connection_history, tool_metrics,
                 protocol_metrics, alert_thresholds>>

None == "None"

\* find_best_version has not been called
NoBest == [called |-> FALSE, client_versions |-> <<>>, result |-> None]

-----------------------------------------------------------------------------
(* Bounds of the model.                                                    *)

\* adapters registered at startup in the negotiation specification
MaxAdapters == 2
\* add_compatibility_rule calls in the negotiation specification
MaxRules == 2
\* versions a client lists in supportedVersions
MaxClientVersions == 2
\* transports offered to the server
NumTransports == 2
\* frames the clients send, all transports together
MaxFrames == 4

\* calls made on the monitor in the monitor specification
MaxCalls == 4

-----------------------------------------------------------------------------
(* Strings.                                                                *)

\* The characters of every version string the model uses.
Chars(v) ==
    CASE v = "0.5"  -> <<"0", ".", "5">>
      [] v = "0.9"  -> <<"0", ".", "9">>
      [] v = "1.0"  -> <<"1", ".", "0">>
      [] v = "1.1"  -> <<"1", ".", "1">>
      [] v = "1.9"  -> <<"1", ".", "9">>
      [] v = "1.10" -> <<"1", ".", "1", "0">>
      [] v = "2.0"  -> <<"2", ".", "0">>
      [] v = "beta" -> <<"b", "e", "t", "a">>

\* Unicode code point of a character (Python compares str by code point).
Ord(c) ==
    CASE c = "." -> 46
      [] c = "0" -> 48 [] c = "1" -> 49 [] c = "2" -> 50 [] c = "3" -> 51
      [] c = "4" -> 52 [] c = "5" -> 53 [] c = "6" -> 54 [] c = "7" -> 55
      [] c = "8" -> 56 [] c = "9" -> 57
      [] c = "a" -> 97 [] c = "b" -> 98 [] c = "e" -> 101 [] c = "t" -> 116

IsDigit(c) == Ord(c) >= 48 /\ Ord(c) <= 57

\* a < b for two character sequences, as Python's str.__lt__
RECURSIVE CharsLess(_, _)
CharsLess(a, b) ==
    IF a = <<>> THEN b # <<>>
    ELSE IF b = <<>> THEN FALSE
    ELSE IF Head(a) = Head(b) THEN CharsLess(Tail(a), Tail(b))
    ELSE Ord(Head(a)) < Ord(Head(b))

StrLess(v, w) == CharsLess(Chars(v), Chars(w))

\* str.split("."): the parts between the dots
RECURSIVE SplitDots(_, _)
SplitDots(cs, cur) ==
    IF cs = <<>> THEN <<cur>>
    ELSE IF Head(cs) = "." THEN <<cur>> \o SplitDots(Tail(cs), <<>>)
    ELSE SplitDots(Tail(cs), Append(cur, Head(cs)))

\* int(part) succeeds on a non-empty run of digits
IsIntLiteral(part) == part # <<>> /\ \A i \in 1..Len(part) : IsDigit(part[i])

RECURSIVE IntOf(_, _)
IntOf(part, acc) ==
    IF part = <<>> THEN acc
    ELSE IntOf(Tail(part), 10 * acc + (Ord(Head(part)) - 48))


SeqToSet(s) == {s[i] : i \in 1..Len(s)}

-----------------------------------------------------------------------------
(* Version order: MCPProtocolNegotiator._version_sort_key and Python's     *)
(* comparison of the tuples it returns.                                    *)

IntElem(n) == [t |-> "int", n |-> n, s |-> ""]
StrElem(v) == [t |-> "str", n |-> 0, s |-> v]

\* "1.10" -> (1, 10); a part int() rejects -> (0, version)
version_sort_key(version) ==
    LET parts == SplitDots(Chars(version), <<>>)
    IN  IF \A i \in 1..Len(parts) : IsIntLiteral(parts[i])
        THEN [i \in 1..Len(parts) |-> IntElem(IntOf(parts[i], 0))]
        ELSE <<IntElem(0), StrElem(version)>>

TypeError == "TypeError"

\* Python tuple comparison: the first position where the elements differ
\* decides, and comparing an int with a str there raises TypeError; with no
\* such position the shorter tuple is the smaller.
RECURSIVE TupleCmp(_, _)
TupleCmp(a, b) ==
    IF a = <<>> /\ b = <<>> THEN "eq"
    ELSE IF a = <<>> THEN "lt"
    ELSE IF b = <<>> THEN "gt"
    ELSE LET x == Head(a)
             y == Head(b)
         IN  IF x.t # y.t THEN TypeError
             ELSE IF x.t = "int"
                  THEN IF x.n = y.n THEN TupleCmp(Tail(a), Tail(b))
                       ELSE IF x.n < y.n THEN "lt" ELSE "gt"
                  ELSE IF x.s = y.s THEN TupleCmp(Tail(a), Tail(b))
                       ELSE IF StrLess(x.s, y.s) THEN "lt" ELSE "gt"

\* What an expression that may raise does: raised is None and value is what
\* it returned, or raised names the exception (and value is not to be read).

\* _version_sort_key(v) < _version_sort_key(w)
KeyLess(v, w) ==
    LET c == TupleCmp(version_sort_key(v), version_sort_key(w))
    IN  [raised |-> (IF c = TypeError THEN TypeError ELSE None),
         value  |-> c = "lt"]

\* v comes strictly before w in the order a sorted() call uses:
\*   "key"      sorted(xs, key=_version_sort_key)
\*   "key_rev"  sorted(xs, key=_version_sort_key, reverse=True)
\*   "str_rev"  sorted(xs, reverse=True)
\* The comparison of two keys may raise; that of two strings never does.
Before(mode, v, w) ==
    CASE mode = "key"     -> KeyLess(v, w)
      [] mode = "key_rev" -> KeyLess(w, v)
      [] mode = "str_rev" -> [raised |-> None, value |-> StrLess(w, v)]

\* sorted() is stable: x goes behind every element it is not strictly before.
\* A comparison that raises ends the sort with its exception.
Prepend(x, sorted) ==
    IF sorted.raised # None THEN sorted
    ELSE [raised |-> None, value |-> <<x>> \o sorted.value]

RECURSIVE InsertSorted(_, _, _)
InsertSorted(mode, s, x) ==
    IF s = <<>> THEN [raised |-> None, value |-> <<x>>]
    ELSE LET before == Before(mode, x, Head(s))
         IN  IF before.raised # None
             THEN [raised |-> before.raised, value |-> <<>>]
             ELSE IF before.value
             THEN [raised |-> None, value |-> <<x>> \o s]
             ELSE Prepend(Head(s), InsertSorted(mode, Tail(s), x))

\* done is what the sort has made of the elements before rest
RECURSIVE SortedFrom(_, _, _)
SortedFrom(mode, done, rest) ==
    IF rest = <<>> \/ done.raised # None THEN done
    ELSE SortedFrom(mode, InsertSorted(mode, done.value, Head(rest)),
                    Tail(rest))

Sorted(mode, xs) == SortedFrom(mode, [raised |-> None, value |-> <<>>], xs)

\* list(a_set): the order is that of the set's hash table, which differs
\* from one run of the interpreter to the next (str hashes are salted), so
\* every sequence holding each element of S once is a possible value
RECURSIVE ListOf(_)
ListOf(S) ==
    IF S = {} THEN {<<>>}
    ELSE UNION {{<<x>> \o rest : rest \in ListOf(S \ {x})} : x \in S}

-----------------------------------------------------------------------------
(* ProtocolVersionRegistry (adapters/base.py)                              *)

\* MCPv1Adapter._supported_tools
SupportedToolsV1 ==
    {"rag_search", "rag_summarize", "document_upload",
     "document_list", "document_get", "document_delete"}

\* the tools of the adapter the negotiator tests register
SupportedToolsMock == {"rag_search", "rag_summarize"}

Adapter(version, tools) == [version |-> version, tools |-> tools]

\* self._adapters[version] = adapter : a dict keeps the position of a key
\* it already holds
register_adapter(ads, adapter) ==
    IF \E i \in 1..Len(ads) : ads[i].version = adapter.version
    THEN [i \in 1..Len(ads) |->
            IF ads[i].version = adapter.version THEN adapter ELSE ads[i]]
    ELSE Append(ads, adapter)

get_supported_versions(ads) == [i \in 1..Len(ads) |-> ads[i].version]

\* self._compatibility_matrix[version1][version2] = compatible
set_compatibility(matrix, version1, version2, compatible) ==
    (<<version1, version2>> :> compatible) @@ matrix

are_compatible(matrix, version1, version2) ==
    IF <<version1, version2>> \in DOMAIN matrix
    THEN matrix[<<version1, version2>>]
    ELSE FALSE

\* find_best_version: the first client version that has an adapter; else
\* the first (client version, adapter) pair the matrix links, the client
\* versions in the caller's order and the adapters in registration order
find_best_version(ads, matrix, client_versions) ==
    LET exact == {j \in 1..Len(client_versions) :
                    \E i \in 1..Len(ads) : ads[i].version = client_versions[j]}
        pairs == {p \in (1..Len(client_versions)) \X (1..Len(ads)) :
                    are_compatible(matrix, ads[p[2]].version,
                                   client_versions[p[1]])}
        first == CHOOSE p \in pairs :
                    \A q \in pairs :
                        p[1] < q[1] \/ (p[1] = q[1] /\ p[2] <= q[2])
    IN  IF exact # {}
        THEN client_versions[CHOOSE j \in exact : \A k \in exact : j <= k]
        ELSE IF pairs # {} THEN ads[first[2]].version
        ELSE None

HasAdapter(ads, version) == \E i \in 1..Len(ads) : ads[i].version = version

get_adapter(ads, version) ==
    IF HasAdapter(ads, version)
    THEN ads[CHOOSE i \in 1..Len(ads) : ads[i].version = version]
    ELSE None

-----------------------------------------------------------------------------
(* MCPProtocolNegotiator (negotiation.py)                                  *)

NoCompatibleVersion == "ValueError"

\* _build_default_compatibility_matrix: (server, client) -> compatible
DefaultCompatibilityMatrix ==
    (<<"1.0", "1.0">> :> TRUE)  @@ (<<"1.0", "0.9">> :> TRUE)  @@
    (<<"1.1", "1.1">> :> TRUE)  @@ (<<"1.1", "1.0">> :> TRUE)  @@
    (<<"1.1", "0.9">> :> FALSE) @@
    (<<"2.0", "2.0">> :> TRUE)  @@ (<<"2.0", "1.1">> :> FALSE) @@
    (<<"2.0", "1.0">> :> FALSE)

add_compatibility_rule(matrix, server_version, client_version, compatible) ==
    (<<server_version, client_version>> :> compatible) @@ matrix

\* a slip: the version list looked at before the preferred version
extract_client_versions_list_first(capabilities) ==
    IF "supportedVersions" \in DOMAIN capabilities
    THEN capabilities.supportedVersions
    ELSE IF "protocolVersion" \in DOMAIN capabilities
    THEN <<capabilities.protocolVersion>>
    ELSE IF "versions" \in DOMAIN capabilities
    THEN capabilities.versions
    ELSE IF "version" \in DOMAIN capabilities
    THEN <<capabilities.version>>
    ELSE <<"1.0">>

extract_client_versions(capabilities) ==
    IF "protocolVersion" \in DOMAIN capabilities
    THEN <<capabilities.protocolVersion>>
    ELSE IF "supportedVersions" \in DOMAIN capabilities
    THEN capabilities.supportedVersions
    ELSE IF "versions" \in DOMAIN capabilities
    THEN capabilities.versions
    ELSE IF "version" \in DOMAIN capabilities
    THEN <<capabilities.version>>
    ELSE <<"1.0">>

\* The value of a "capabilities" key: a JSON list with its items, a JSON
\* object with its keys, or a value of another kind (a string, a number).
ListValue(items)  == [kind |-> "list", items |-> items]
DictValue(keys)   == [kind |-> "dict", items |-> keys]
OtherValue        == [kind |-> "other", items |-> <<>>]

extract_client_features(capabilities) ==
    (IF "features" \in DOMAIN capabilities
     THEN SeqToSet(capabilities.features) ELSE {})
    \cup
    (IF "tools" \in DOMAIN capabilities
     THEN SeqToSet(capabilities.tools) ELSE {})
    \cup
    (IF "capabilities" \in DOMAIN capabilities
        /\ capabilities.capabilities.kind \in {"list", "dict"}
     THEN SeqToSet(capabilities.capabilities.items) ELSE {})

are_versions_compatible(matrix, server_version, client_version) ==
    IF <<server_version, client_version>> \in DOMAIN matrix
    THEN matrix[<<server_version, client_version>>]
    ELSE FALSE

can_provide_features(ads, server_version, required_features) ==
    IF ~HasAdapter(ads, server_version) THEN FALSE
    ELSE IF required_features = {} THEN TRUE
    ELSE required_features \subseteq get_adapter(ads, server_version).tools

\* the server versions are tried in sorted(server_versions, reverse=True)
\* order, the client versions in the order the client listed them
find_compatible_version(ads, matrix, client_versions, server_versions, client_features) ==
    LET order == Sorted("str_rev", server_versions).value
        hits == {i \in 1..Len(order) :
                    \E j \in 1..Len(client_versions) :
                        /\ are_versions_compatible(matrix, order[i],
                                                   client_versions[j])
                        /\ can_provide_features(ads, order[i], client_features)}
    IN  IF hits = {} THEN None
        ELSE order[CHOOSE i \in hits : \A k \in hits : i <= k]

\* a slip: plain string order instead of the numeric key
select_latest_version_by_string(versions) ==
    Sorted("str_rev", versions).value[1]

\* the first of the sorted list, or the TypeError the sort raised
select_latest_version(versions) ==
    LET sorted == Sorted("key_rev", versions)
    IN  IF sorted.raised # None THEN sorted.raised ELSE sorted.value[1]

\* None, the first of the sorted list, or the TypeError the sort raised
get_fallback_version(server_versions) ==
    IF server_versions = <<>> THEN None
    ELSE LET sorted == Sorted("key", server_versions)
         IN  IF sorted.raised # None THEN sorted.raised ELSE sorted.value[1]

\* a slip: the comparison the wrong way round
can_client_handle_fallback_reversed(fallback_version, capabilities) ==
    LET client_versions == extract_client_versions(capabilities)
    IN  \E j \in 1..Len(client_versions) :
            TupleCmp(version_sort_key(client_versions[j]),
                     version_sort_key(fallback_version)) \in {"lt", "eq"}

\* client_tuple >= fallback_tuple for some client version; a comparison
\* that raises is skipped by the bare except
can_client_handle_fallback(fallback_version, capabilities) ==
    LET client_versions == extract_client_versions(capabilities)
    IN  \E j \in 1..Len(client_versions) :
            TupleCmp(version_sort_key(client_versions[j]),
                     version_sort_key(fallback_version)) \in {"gt", "eq"}

\* a slip: the compatibility matrix consulted before the exact matches
negotiate_protocol_matrix_first(ads, matrix, client_capabilities) ==
    LET client_versions == extract_client_versions(client_capabilities)
        client_features == extract_client_features(client_capabilities)
        server_versions == get_supported_versions(ads)
        exact_matches   == SeqToSet(client_versions) \cap SeqToSet(server_versions)
        compatible_version ==
            find_compatible_version(ads, matrix, client_versions,
                                    server_versions, client_features)
        basic_version == get_fallback_version(server_versions)
    IN  IF compatible_version # None
        THEN {compatible_version}
        ELSE IF exact_matches # {}
        THEN {select_latest_version(versions) :
                 versions \in ListOf(exact_matches)}
        ELSE IF basic_version = TypeError
        THEN {TypeError}
        ELSE IF basic_version # None
                /\ can_client_handle_fallback(basic_version, client_capabilities)
        THEN {basic_version}
        ELSE {NoCompatibleVersion}

\* What a call may return or raise: the version returned, NoCompatibleVersion
\* for the ValueError of step 4, TypeError for a sort that raised. The set
\* has one element for each order list(exact_matches) may have.
negotiate_protocol(ads, matrix, client_capabilities) ==
    LET client_versions == extract_client_versions(client_capabilities)
        client_features == extract_client_features(client_capabilities)
        server_versions == get_supported_versions(ads)
        exact_matches   == SeqToSet(client_versions) \cap SeqToSet(server_versions)
        compatible_version ==
            find_compatible_version(ads, matrix, client_versions,
                                    server_versions, client_features)
        basic_version == get_fallback_version(server_versions)
    IN  IF exact_matches # {}
        THEN {select_latest_version(versions) :
                 versions \in ListOf(exact_matches)}
        ELSE IF compatible_version # None
        THEN {compatible_version}
        ELSE IF basic_version = TypeError
        THEN {TypeError}
        ELSE IF basic_version # None
                /\ can_client_handle_fallback(basic_version, client_capabilities)
        THEN {basic_version}
        ELSE {NoCompatibleVersion}

-----------------------------------------------------------------------------
(* Messages.                                                               *)

Transports == 1..NumTransports

\* connection_id = str(uuid4()): one fresh string per transport
ConnectionId(t) == ToString(t)

\* MCPServer(max_connections=...): the cap of the model's server
MaxConnections == 1

Absent == "absent"

\* A text frame of the client. json is FALSE for a frame json.loads rejects;
\* a field the JSON object does not have is None, which is what message.get
\* returns for it.
Frame(type, id, tool, parameters, capabilities) ==
    [json |-> TRUE, type |-> type, id |-> id, tool |-> tool,
     parameters |-> parameters, capabilities |-> capabilities]

GarbageFrame ==
    [json |-> FALSE, type |-> None, id |-> None, tool |-> None,
     parameters |-> {}, capabilities |-> <<>>]

HelloFrame(capabilities) == Frame("hello", None, None, {}, capabilities)

\* capability documents of the hello frames: exact match, matrix match,
\* fallback, and no compatible version
HelloCapabilities ==
    {[protocolVersion |-> "1.0"], [supportedVersions |-> <<"0.9">>],
     [supportedVersions |-> <<"2.0">>], [supportedVersions |-> <<"0.5">>]}

\* the frames a client may send as its k-th frame; its id names k
ClientFrames(k) ==
    LET id == ToString(k)
    IN  {HelloFrame(c) : c \in HelloCapabilities}
        \cup
        {Frame("ready", None, None, {}, <<>>),
         Frame("ping", id, None, {}, <<>>),
         Frame("tool_call", id, "rag_search", {"query"}, <<>>),
         Frame("tool_call", id, "rag_search", {}, <<>>),
         Frame("tool_call", id, "unknown_tool", {}, <<>>),
         Frame("tool_call", id, "document_get", {"document_id"}, <<>>),
         Frame("get_capabilities", id, None, {}, <<>>),
         Frame("get_protocol_info", id, None, {}, <<>>),
         Frame("subscribe", id, None, {}, <<>>),
         GarbageFrame}

\* A message of the server: type, the "id" and "request_id" fields (Absent
\* when the dict has no such key), error.code, and the tool it names.
Message(type, id, request_id, code, tool) ==
    [type |-> type, id |-> id, request_id |-> request_id, code |-> code,
     tool |-> tool, result |-> None, protocol_version |-> None,
     supported_versions |-> <<>>]

NoMessage == Message(None, Absent, Absent, None, None)

\* entries of a connection's log: a frame received, a message sent, a tool
\* call handed to the adapter; re is the number of the frame it belongs to
Received(frame, k) ==
    [ev |-> "recv", type |-> (IF frame.json THEN frame.type ELSE "garbage"),
     id |-> frame.id, request_id |-> Absent, code |-> None,
     tool |-> frame.tool, re |-> k, result |-> None,
     protocol_version |-> None, supported_versions |-> <<>>]
Sent(message, k) ==
    [ev |-> "send", type |-> message.type, id |-> message.id,
     request_id |-> message.request_id, code |-> message.code,
     tool |-> message.tool, re |-> k, result |-> message.result,
     protocol_version |-> message.protocol_version,
     supported_versions |-> message.supported_versions]
Dispatched(tool, k) ==
    [ev |-> "dispatch", type |-> "tool_call", id |-> Absent,
     request_id |-> Absent, code |-> None, tool |-> tool, re |-> k,
     result |-> None, protocol_version |-> None, supported_versions |-> <<>>]

-----------------------------------------------------------------------------
(* MCPv1Adapter (adapters/mcp_v1.py)                                       *)

\* the parameters a tool handler asks for before anything else
\* ("Missing required parameter: ...")
RequiredParameters(tool_name) ==
    CASE tool_name = "rag_search"      -> {"query"}
      [] tool_name = "rag_summarize"   -> {"document_ids"}
      [] tool_name = "document_upload" -> {"filename", "content"}
      [] tool_name = "document_get"    -> {"document_id"}
      [] tool_name = "document_delete" -> {"document_id"}
      [] OTHER                         -> {}

\* What the rest of a handler may do once the parameters are there, which
\* depends on their values and on the document store: return a result,
\* raise (a value the handler or the domain service rejects, a failing
\* adapter), or find no document. RAGDomainService.get_document and
\* list_documents and DocumentProcessingService.delete_document catch every
\* exception themselves.
ServiceOutcomes(tool_name) ==
    CASE tool_name \in {"rag_search", "rag_summarize", "document_upload"}
              -> {"returns", "raises"}
      [] tool_name = "document_get" -> {"returns", "not_found"}
      [] OTHER -> {"returns"}

\* handle_tool_call: parameters are the keys of the parameters object.
\* Every exception of a tool handler is caught and turned into a returned
\* {"error": {"code": "TOOL_EXECUTION_ERROR", ...}} dict; the call itself
\* never raises.
handle_tool_call(tool_name, parameters, service) ==
    IF tool_name \notin SupportedToolsV1
    THEN [raised |-> FALSE, error |-> "TOOL_EXECUTION_ERROR"]
    ELSE IF ~(RequiredParameters(tool_name) \subseteq parameters)
    THEN [raised |-> FALSE, error |-> "TOOL_EXECUTION_ERROR"]
    ELSE IF service = "raises"
    THEN [raised |-> FALSE, error |-> "TOOL_EXECUTION_ERROR"]
    ELSE IF tool_name = "document_get" /\ service = "not_found"
    THEN [raised |-> FALSE, error |-> "DOCUMENT_NOT_FOUND"]
    ELSE [raised |-> FALSE, error |-> None]

-----------------------------------------------------------------------------
(* MCPMonitor (monitoring.py). Every entry point takes the monitor's lock, *)
(* which no coroutine holds across an await, and so runs as one step.      *)
(* Times are whole seconds of the clock now.                               *)

Remove(f, k) == [x \in DOMAIN f \ {k} |-> f[x]]
Put(f, k, v) == (k :> v) @@ f

ConnectionMetrics(protocol_version) ==
    [protocol_version |-> protocol_version, message_count |-> 0,
     bytes_sent |-> 0, bytes_received |-> 0, errors |-> 0,
     connected_at |-> now, last_activity |-> now]

ProtocolMetrics ==
    [total_connections |-> 0, active_connections |-> 0, total_messages |-> 0,
     handshake_failures |-> 0, negotiation_failures |-> 0]

ToolMetrics ==
    [total_calls |-> 0, successful_calls |-> 0, failed_calls |-> 0,
     recent_response_times |-> <<>>]

\* ToolMetrics.recent_response_times: deque(maxlen=100)
RecentWindow == 100

\* deque.append on a deque with maxlen: the oldest sample is dropped
AppendRecent(window, execution_time) ==
    IF Len(window) >= RecentWindow
    THEN Append(Tail(window), execution_time)
    ELSE Append(window, execution_time)

Max(a, b) == IF a >= b THEN a ELSE b

RECURSIVE SumOver(_, _)
SumOver(f, S) ==
    IF S = {} THEN 0
    ELSE LET x == CHOOSE y \in S : TRUE
         IN  f[x] + SumOver(f, S \ {x})

Sum(f) == SumOver(f, DOMAIN f)

RECURSIVE SumSeq(_)
SumSeq(xs) == IF xs = <<>> THEN 0 ELSE Head(xs) + SumSeq(Tail(xs))

\* the values __init__ gives MCPMonitor._alert_thresholds
AlertMaxConnections == 100
\* max_error_rate 0.1, in percent
AlertMaxErrorRatePercent == 10
AlertMaxResponseTime == 30
AlertConnectionTimeout == 300

\* MCPMonitor._alert_thresholds after __init__. max_error_rate is kept in
\* percent: the 0.1 of the code is 10 here, and set_alert_threshold takes
\* its value in percent too
DefaultAlertThresholds ==
    [max_connections |-> AlertMaxConnections,
     max_error_rate |-> AlertMaxErrorRatePercent,
     max_response_time |-> AlertMaxResponseTime,
     connection_timeout |-> AlertConnectionTimeout]

\* MCPMonitor(retention_hours=1), the monitor of the tests (the default and
\* the monitor of main.py keep 24 hours)
RetentionHours == 1

track_connection_started(connection_id, protocol_version) ==
    LET pm == IF protocol_version \in DOMAIN protocol_metrics
              THEN protocol_metrics[protocol_version] ELSE ProtocolMetrics
    IN  /\ mon_connections' =
             Put(mon_connections, connection_id, ConnectionMetrics(protocol_version))
        /\ protocol_metrics' =
             Put(protocol_metrics, protocol_version,
                 [pm EXCEPT !.total_connections = @ + 1,
                            !.active_connections = @ + 1])
        /\ UNCHANGED <<connection_history, tool_metrics, alert_thresholds>>

track_connection_ended(connection_id) ==
    IF connection_id \in DOMAIN mon_connections
    THEN LET metrics == mon_connections[connection_id]
             v == metrics.protocol_version
         IN  /\ mon_connections' = Remove(mon_connections, connection_id)
             /\ protocol_metrics' =
                  IF v \in DOMAIN protocol_metrics
                  THEN [protocol_metrics EXCEPT ![v].active_connections =
                                                    Max(0, @ - 1)]
                  ELSE protocol_metrics
             /\ connection_history' =
                  Append(connection_history,
                         [connection_id |-> connection_id,
                          protocol_version |-> v,
                          duration |-> now - metrics.connected_at,
                          message_count |-> metrics.message_count,
                          errors |-> metrics.errors,
                          ended_at |-> now])
             /\ UNCHANGED <<tool_metrics, alert_thresholds>>
    ELSE UNCHANGED monitorVars

track_message(connection_id, size_bytes, is_outbound) ==
    IF connection_id \in DOMAIN mon_connections
    THEN LET v == mon_connections[connection_id].protocol_version
         IN  /\ mon_connections' =
                  [mon_connections EXCEPT
                     ![connection_id].message_count = @ + 1,
                     ![connection_id].last_activity = now,
                     ![connection_id].bytes_sent =
                         IF is_outbound THEN @ + size_bytes ELSE @,
                     ![connection_id].bytes_received =
                         IF is_outbound THEN @ ELSE @ + size_bytes]
             /\ protocol_metrics' =
                  IF v \in DOMAIN protocol_metrics
                  THEN [protocol_metrics EXCEPT ![v].total_messages = @ + 1]
                  ELSE protocol_metrics
             /\ UNCHANGED <<connection_history, tool_metrics,
                            alert_thresholds>>
    ELSE UNCHANGED monitorVars

\* a failed call counted in total_calls only
track_tool_call_uncounted(connection_id, tool_name, execution_time, success) ==
    LET tm == IF tool_name \in DOMAIN tool_metrics
              THEN tool_metrics[tool_name] ELSE ToolMetrics
    IN  /\ mon_connections' =
             IF connection_id \in DOMAIN mon_connections
             THEN [mon_connections EXCEPT ![connection_id].errors =
                                              IF success THEN @ ELSE @ + 1]
             ELSE mon_connections
        /\ tool_metrics' =
             Put(tool_metrics, tool_name,
                 [tm EXCEPT !.total_calls = @ + 1,
                            !.successful_calls = IF success THEN @ + 1 ELSE @,
                            !.recent_response_times =
                                AppendRecent(@, execution_time)])
        /\ UNCHANGED <<connection_history, protocol_metrics, alert_thresholds>>

\* connection_id is the literal "unknown" at both call sites of the server
track_tool_call(connection_id, tool_name, execution_time, success) ==
    LET tm == IF tool_name \in DOMAIN tool_metrics
              THEN tool_metrics[tool_name] ELSE ToolMetrics
    IN  /\ mon_connections' =
             IF connection_id \in DOMAIN mon_connections
             THEN [mon_connections EXCEPT ![connection_id].errors =
                                              IF success THEN @ ELSE @ + 1]
             ELSE mon_connections
        /\ tool_metrics' =
             Put(tool_metrics, tool_name,
                 [tm EXCEPT !.total_calls = @ + 1,
                            !.successful_calls = IF success THEN @ + 1 ELSE @,
                            !.failed_calls = IF success THEN @ ELSE @ + 1,
                            !.recent_response_times =
                                AppendRecent(@, execution_time)])
        /\ UNCHANGED <<connection_history, protocol_metrics, alert_thresholds>>

\* the entry of the version is created when it is not there
track_handshake_failure(protocol_version) ==
    LET pm == IF protocol_version \in DOMAIN protocol_metrics
              THEN protocol_metrics[protocol_version] ELSE ProtocolMetrics
    IN  /\ protocol_metrics' =
             Put(protocol_metrics, protocol_version,
                 [pm EXCEPT !.handshake_failures = @ + 1])
        /\ UNCHANGED <<mon_connections, connection_history, tool_metrics,
                       alert_thresholds>>

track_negotiation_failure ==
    /\ protocol_metrics' =
         [v \in DOMAIN protocol_metrics |->
            [protocol_metrics[v] EXCEPT !.negotiation_failures = @ + 1]]
    /\ UNCHANGED <<mon_connections, connection_history, tool_metrics,
                   alert_thresholds>>

\* the history keeps the entries that ended after the cutoff, in order
cleanup_old_data(retention_hours) ==
    LET cutoff_time == now - retention_hours * 3600
    IN  /\ connection_history' =
             SelectSeq(connection_history,
                       LAMBDA entry : entry.ended_at > cutoff_time)
        /\ UNCHANGED <<mon_connections, tool_metrics, protocol_metrics,
                       alert_thresholds>>

\* a name that is not a key of the dict is logged and changes nothing
set_alert_threshold(threshold_name, value) ==
    /\ alert_thresholds' =
         IF threshold_name \in DOMAIN alert_thresholds
         THEN [alert_thresholds EXCEPT ![threshold_name] = value]
         ELSE alert_thresholds
    /\ UNCHANGED <<mon_connections, connection_history, tool_metrics,
                   protocol_metrics>>

-----------------------------------------------------------------------------
(* MCPConnection and MCPServer (server.py).                                *)
(* A task is one handle_connection coroutine. Its pc names the await it is *)
(* suspended in; one action runs the code from one suspension to the next. *)
(* Awaits of the monitor and of the connection lock never suspend (no      *)
(* coroutine keeps either lock across an await), so they are part of the   *)
(* step that reaches them.                                                 *)

\* the local variable message of _message_loop before its first assignment
Unbound ==
    [json |-> FALSE, type |-> "unbound", id |-> None, tool |-> None,
     parameters |-> {}, capabilities |-> <<>>]

NewTask ==
    [pc |-> "new", client_state |-> "CONNECTING", negotiated_version |-> None,
     client_capabilities |-> <<>>, message_count |-> 0, message |-> Unbound,
     pending |-> NoMessage, broken |-> FALSE, close_code |-> 0, log |-> <<>>]

MonitorInit ==
    /\ mon_connections = <<>>
    /\ connection_history = <<>>
    /\ tool_metrics = <<>>
    /\ protocol_metrics = <<>>
    /\ alert_thresholds = DefaultAlertThresholds
    /\ calls = <<>>
    /\ now = 0

\* no broadcast_message call has been made. snapshot is the list of
\* connections copied under the lock (as transports), next the position of
\* the loop in it, seen the negotiated_version the filter read for each
\* connection, attempted the connections send_message was called on.
NoBroadcast ==
    [pc |-> "idle", version_filter |-> None, snapshot |-> <<>>, next |-> 1,
     seen |-> <<>>, attempted |-> {}, sent_count |-> 0, returned |-> 0]

ServerInit ==
    /\ connections = <<>>
    /\ total_connections = 0
    /\ total_messages = 0
    /\ task = [t \in Transports |-> NewTask]
    /\ broadcast = NoBroadcast
    /\ connections_lock = None

\* async with self._connections_lock: a coroutine enters the block without
\* suspending when the lock is free, and waits for it otherwise
LockFree == connections_lock = None
\* a slip: the block is left with the lock still held
Released_kept(holder) == holder
\* the lock when holder leaves the block
Released(holder) == None

RECURSIVE FramesReceived(_)
FramesReceived(S) ==
    IF S = {} THEN 0
    ELSE LET t == CHOOSE x \in S : TRUE
         IN  task[t].message_count + FramesReceived(S \ {t})

\* the client may still send a frame
MayReceive(t) == ~task[t].broken /\ FramesReceived(Transports) < MaxFrames

\* how an await of send_text ends: the frame is written, or the transport
\* raises (WebSocketDisconnect or another exception, by the ASGI server)
SendOutcomes == {"ok", "WebSocketDisconnect", "RuntimeError"}
MaySend(t, outcome) == outcome = "ok" => ~task[t].broken

\* the messages the server builds
ServerError == Message("error", Absent, Absent, "SERVER_ERROR", None)
NegotiationFailed(versions) ==
    [Message("error", Absent, Absent, "PROTOCOL_NEGOTIATION_FAILED", None)
        EXCEPT !.supported_versions = versions]
ServerHello(version) ==
    [Message("hello", Absent, Absent, None, None)
        EXCEPT !.protocol_version = version]
ProcessingError(message) ==
    Message("error", Absent, message.id, "MESSAGE_PROCESSING_ERROR", None)
HandlerError(message) ==
    Message("error", message.id, Absent, "HANDLER_ERROR", None)
\* a slip: the else branch of _handle_message answers as the except does
UnknownMessageType_handler_error(message) ==
    Message("error", message.id, Absent, "HANDLER_ERROR", None)
UnknownMessageType(message) ==
    Message("error", message.id, Absent, "UNKNOWN_MESSAGE_TYPE", None)
Pong(message) == Message("pong", message.id, Absent, None, None)
Capabilities(message) == Message("capabilities", message.id, Absent, None, None)
ProtocolInfo(message) == Message("protocol_info", message.id, Absent, None, None)
ToolResponse(message, result) ==
    [Message("tool_response", message.id, Absent, None, message.tool)
        EXCEPT !.result = result]
ToolError(message) ==
    Message("tool_error", message.id, Absent, "TOOL_EXECUTION_ERROR", message.tool)

\* MCPConnection.receive_message up to json.loads
Receive(tk, frame) ==
    [tk EXCEPT !.message_count = @ + 1,
               !.log = Append(@, Received(frame, tk.message_count + 1))]

\* MCPConnection.send_message: the frame written, or the transport broken
AfterSend(tk, outcome) ==
    IF outcome = "ok"
    THEN [tk EXCEPT !.log = Append(@, Sent(tk.pending, tk.message_count)),
                    !.pending = NoMessage]
    ELSE [tk EXCEPT !.broken = TRUE, !.pending = NoMessage]

\* handle_connection, except Exception: the SERVER_ERROR frame is sent next
ToServerError(tk) ==
    [tk EXCEPT !.pc = "send_server_error", !.pending = ServerError]

\* handle_connection, finally: the task's part (websocket.close() when the
\* client is still connected)
Closed(tk) ==
    [tk EXCEPT !.pc = "done",
               !.close_code = IF tk.client_state = "CONNECTED" /\ ~tk.broken
                              THEN 1000 ELSE 0]

\* the keys of self._connections
ConnectionIds == {connections[i] : i \in 1..Len(connections)}

\* self._connections[connection_id] = connection: a new key goes to the end
\* of the dict, a key it has keeps its place
Store(conns, connection_id) ==
    IF \E i \in 1..Len(conns) : conns[i] = connection_id
    THEN conns ELSE Append(conns, connection_id)

\* self._connections.pop(connection_id, None)
Pop(conns, connection_id) ==
    SelectSeq(conns, LAMBDA c : c # connection_id)

\* handle_connection, finally: the monitor and the connection dict
Finally_clear(t) ==
    /\ track_connection_ended(ConnectionId(t))
    /\ LockFree
    /\ connections' = <<>>
    /\ connections_lock' = Released(ConnectionId(t))
    /\ UNCHANGED <<total_connections, total_messages>>
\* a slip: the connection is left in the server's dict
Finally_leak(t) ==
    /\ track_connection_ended(ConnectionId(t))
    /\ LockFree
    /\ connections_lock' = Released(ConnectionId(t))
    /\ UNCHANGED <<connections, total_connections, total_messages>>
\* a slip: the monitor is not told that the connection ended
Finally_untracked(t) ==
    /\ LockFree
    /\ connections' = Pop(connections, ConnectionId(t))
    /\ connections_lock' = Released(ConnectionId(t))
    /\ UNCHANGED <<total_connections, total_messages, monitorVars>>
Finally(t) ==
    /\ track_connection_ended(ConnectionId(t))
    /\ LockFree
    /\ connections' = Pop(connections, ConnectionId(t))
    /\ connections_lock' = Released(ConnectionId(t))
    /\ UNCHANGED <<total_connections, total_messages>>

\* the capacity check of handle_connection
LimitReached_exceeded == Len(connections) > MaxConnections
LimitReached == Len(connections) >= MaxConnections

-----------------------------------------------------------------------------
(* Inputs of the negotiation specification.                                *)

\* versions an adapter may be registered under
ServerVersionPool == {"1.0", "1.1", "1.9", "1.10"}

\* versions a client may declare
ClientVersionPool == {"0.5", "0.9", "1.0", "1.9", "1.10", "2.0", "beta"}

AdapterPool ==
    {Adapter("1.0", SupportedToolsV1), Adapter("1.1", SupportedToolsV1),
     Adapter("1.9", SupportedToolsMock), Adapter("1.10", SupportedToolsV1)}

\* (server, client, compatible) triples given to add_compatibility_rule
RulePool == ServerVersionPool \X {"0.9"} \X BOOLEAN

FeaturePool == {<<>>, <<"document_list">>}

VersionLists == UNION {[1..n -> ClientVersionPool] : n \in 0..MaxClientVersions}

\* (version1, version2, compatible) triples given to
\* registry.set_compatibility: the edge main.py sets, set and unset
RegistryRulePool == {"1.0"} \X {"0.9"} \X BOOLEAN

\* edges recorded by set_compatibility
MaxRegistryRules == 2

\* documents that carry several of the version fields at once, each field
\* with a version of its own
LayeredCapabilities ==
    {[protocolVersion |-> "1.0", supportedVersions |-> <<"1.1">>,
      versions |-> <<"1.9">>, version |-> "1.10"],
     [supportedVersions |-> <<"1.1">>, versions |-> <<"1.9">>,
      version |-> "1.10"],
     [versions |-> <<"1.9">>, version |-> "1.10"],
     [version |-> "1.10"],
     [version |-> "1.10", protocolVersion |-> "1.0"]}

\* documents that declare features under the "capabilities" key: a list, an
\* object, a value that is neither
NestedCapabilities ==
    {[supportedVersions |-> <<"0.9">>, capabilities |-> c] :
        c \in {ListValue(<<"document_list">>), DictValue(<<"document_purge">>),
               OtherValue}}

\* capability documents: one preferred version, a list of versions, neither,
\* or several fields
CapabilityPool ==
    {[protocolVersion |-> v, features |-> f] :
        v \in ClientVersionPool, f \in FeaturePool}
    \cup
    {[supportedVersions |-> vs, features |-> f] :
        vs \in VersionLists, f \in FeaturePool}
    \cup
    {[features |-> f] : f \in FeaturePool}
    \cup
    LayeredCapabilities
    \cup
    NestedCapabilities

\* ProtocolVersionRegistry.__init__ and MCPProtocolNegotiator.__init__
InitNeg ==
    /\ best = NoBest
    /\ adapters = <<>>
    /\ compatibility_matrix = DefaultCompatibilityMatrix
    /\ registry_compatibility_matrix = <<>>
    /\ neg_caps = None
    /\ neg_result = None
    /\ ServerInit
    /\ MonitorInit

\* startup: registry.register_adapter(adapter)
RegisterAdapter(adapter) ==
    /\ neg_result = None
    /\ best = NoBest
    /\ Len(adapters) < MaxAdapters
    /\ adapters' = register_adapter(adapters, adapter)
    /\ UNCHANGED <<compatibility_matrix, registry_compatibility_matrix,
                   negVars, serverVars, monitorVars>>
    /\ UNCHANGED <<calls, now, broadcast>>

\* startup: negotiator.add_compatibility_rule(server, client, compatible)
AddCompatibilityRule(rule) ==
    /\ neg_result = None
    /\ best = NoBest
    /\ Cardinality(DOMAIN compatibility_matrix)
         < Cardinality(DOMAIN DefaultCompatibilityMatrix) + MaxRules
    /\ compatibility_matrix' =
         add_compatibility_rule(compatibility_matrix, rule[1], rule[2], rule[3])
    /\ UNCHANGED <<adapters, registry_compatibility_matrix, negVars,
                   serverVars, monitorVars>>
    /\ UNCHANGED <<calls, now, broadcast>>

\* await negotiator.negotiate_protocol(capabilities)
NegotiateProtocol(capabilities) ==
    /\ neg_result = None
    /\ best = NoBest
    /\ neg_caps' = capabilities
    /\ neg_result' \in negotiate_protocol(adapters, compatibility_matrix,
                                          capabilities)
    /\ UNCHANGED <<registryVars, serverVars, monitorVars, best>>
    /\ UNCHANGED <<calls, now, broadcast>>

\* startup: registry.set_compatibility(version1, version2, compatible)
SetCompatibility(rule) ==
    /\ neg_result = None
    /\ best = NoBest
    /\ Cardinality(DOMAIN registry_compatibility_matrix) < MaxRegistryRules
    /\ registry_compatibility_matrix' =
         set_compatibility(registry_compatibility_matrix,
                           rule[1], rule[2], rule[3])
    /\ UNCHANGED <<adapters, compatibility_matrix, negVars, serverVars,
                   monitorVars>>
    /\ UNCHANGED <<calls, now, broadcast>>

\* registry.find_best_version(client_versions)
FindBestVersion(client_versions) ==
    /\ neg_result = None
    /\ best = NoBest
    /\ best' = [called |-> TRUE, client_versions |-> client_versions,
                result |-> find_best_version(adapters,
                                             registry_compatibility_matrix,
                                             client_versions)]
    /\ UNCHANGED <<registryVars, neg_caps, neg_result, serverVars, monitorVars>>
    /\ UNCHANGED <<calls, now, broadcast>>

NextNeg ==
    \/ \E adapter \in AdapterPool : RegisterAdapter(adapter)
    \/ \E rule \in RulePool : AddCompatibilityRule(rule)
    \/ \E rule \in RegistryRulePool : SetCompatibility(rule)
    \/ \E capabilities \in CapabilityPool : NegotiateProtocol(capabilities)

SpecNeg == InitNeg /\ [][NextNeg]_vars

-----------------------------------------------------------------------------
(* The registry specification: a ProtocolVersionRegistry of its own, as    *)
(* the registry tests build it.                                            *)

\* adapters given to register_adapter: two of them for the same version
RegistryAdapterPool == AdapterPool \cup {Adapter("1.0", SupportedToolsMock)}

\* edges given to set_compatibility
RegistryEdgePool == ServerVersionPool \X {"0.9"} \X {TRUE}

NextReg ==
    \/ \E adapter \in RegistryAdapterPool : RegisterAdapter(adapter)
    \/ \E rule \in RegistryEdgePool : SetCompatibility(rule)
    \/ \E client_versions \in VersionLists : FindBestVersion(client_versions)

SpecReg == InitNeg /\ [][NextReg]_vars

-----------------------------------------------------------------------------
(* The server specification: the wiring of main.py (one MCPv1Adapter under *)
(* "1.0", the negotiator's default matrix) and NumTransports websockets.   *)

Init ==
    /\ best = NoBest
    /\ adapters = register_adapter(<<>>, Adapter("1.0", SupportedToolsV1))
    /\ compatibility_matrix = DefaultCompatibilityMatrix
    /\ registry_compatibility_matrix =
         set_compatibility(set_compatibility(<<>>, "1.0", "1.0", TRUE),
                           "1.0", "0.9", TRUE)
    /\ neg_caps = None
    /\ neg_result = None
    /\ ServerInit
    /\ MonitorInit

\* _perform_handshake: the test of the first message
IsHello_any(frame) == frame.type # None
IsHello(frame) == frame.type = "hello"

\* _perform_handshake: the bare raise after the negotiation error is sent
AfterNegotiationError_continue(tk) == [tk EXCEPT !.pc = "recv_ready"]
AfterNegotiationError(tk) == ToServerError(tk)

\* handle_connection up to the first await: the capacity check, then either
\* close(code=1013) or accept()
Start(t) ==
    /\ task[t].pc = "new"
    /\ task' = [task EXCEPT ![t] =
                  IF LimitReached
                  THEN [@ EXCEPT !.pc = "done", !.close_code = 1013]
                  ELSE [@ EXCEPT !.pc = "accept"]]
    /\ UNCHANGED <<registryVars, negVars, serverCounters, monitorVars>>
    /\ UNCHANGED <<calls, now, broadcast>>

\* accept() returns: the connection is stored, the first receive is awaited
Accept(t) ==
    /\ task[t].pc = "accept"
    /\ LockFree
    /\ connections' = Store(connections, ConnectionId(t))
    /\ total_connections' = total_connections + 1
    /\ connections_lock' = Released(ConnectionId(t))
    /\ task' = [task EXCEPT ![t].pc = "recv_hello",
                            ![t].client_state = "CONNECTED"]
    /\ UNCHANGED <<registryVars, negVars, total_messages, monitorVars>>
    /\ UNCHANGED <<calls, now, broadcast>>

\* receive_text raises WebSocketDisconnect: handle_connection logs it and
\* runs its finally block
Disconnect(t) ==
    /\ task[t].pc \in {"recv_hello", "recv_ready", "loop_recv"}
    /\ task' = [task EXCEPT ![t] =
                  Closed([@ EXCEPT !.client_state = "DISCONNECTED"])]
    /\ Finally(t)
    /\ UNCHANGED <<registryVars, negVars>>
    /\ UNCHANGED <<calls, now, broadcast>>

\* _perform_handshake from the first receive to the next send
RecvHello(t, frame) ==
    /\ task[t].pc = "recv_hello"
    /\ MayReceive(t)
    /\ \E version \in negotiate_protocol(adapters, compatibility_matrix,
                                          frame.capabilities) :
       LET tk == Receive(task[t], frame)
           capabilities == frame.capabilities
       IN  IF ~frame.json \/ ~IsHello(frame)
           THEN /\ task' = [task EXCEPT ![t] = ToServerError(tk)]
                /\ UNCHANGED monitorVars
           \* only ValueError is caught by the handshake
           ELSE IF version = TypeError
           THEN /\ task' = [task EXCEPT ![t] = ToServerError(tk)]
                /\ UNCHANGED monitorVars
           ELSE IF version = NoCompatibleVersion
           THEN /\ task' = [task EXCEPT ![t] =
                             [tk EXCEPT !.client_capabilities = capabilities,
                                        !.pc = "send_neg_failed",
                                        !.pending = NegotiationFailed(
                                            get_supported_versions(adapters))]]
                /\ track_negotiation_failure
           ELSE /\ task' = [task EXCEPT ![t] =
                             IF HasAdapter(adapters, version)
                             THEN [tk EXCEPT !.client_capabilities = capabilities,
                                             !.negotiated_version = version,
                                             !.pc = "send_hello",
                                             !.pending = ServerHello(version)]
                             ELSE ToServerError(
                                    [tk EXCEPT !.client_capabilities = capabilities,
                                               !.negotiated_version = version])]
                /\ UNCHANGED monitorVars
    /\ UNCHANGED <<registryVars, negVars, serverCounters>>
    /\ UNCHANGED <<calls, now, broadcast>>

\* the send of the PROTOCOL_NEGOTIATION_FAILED error returns or raises
SendNegotiationFailed(t, outcome) ==
    /\ task[t].pc = "send_neg_failed"
    /\ MaySend(t, outcome)
    /\ IF outcome = "WebSocketDisconnect"
       THEN /\ task' = [task EXCEPT ![t] = Closed(AfterSend(@, outcome))]
            /\ Finally(t)
       ELSE /\ task' = [task EXCEPT ![t] =
                          AfterNegotiationError(AfterSend(@, outcome))]
            /\ UNCHANGED <<serverCounters, monitorVars>>
    /\ UNCHANGED <<registryVars, negVars>>
    /\ UNCHANGED <<calls, now, broadcast>>

\* the send of the SERVER_ERROR error returns or raises; either way the
\* finally block runs
SendServerError(t, outcome) ==
    /\ task[t].pc = "send_server_error"
    /\ MaySend(t, outcome)
    /\ task' = [task EXCEPT ![t] = Closed(AfterSend(@, outcome))]
    /\ Finally(t)
    /\ UNCHANGED <<registryVars, negVars>>
    /\ UNCHANGED <<calls, now, broadcast>>

\* the send of the server hello returns or raises
SendHello(t, outcome) ==
    /\ task[t].pc = "send_hello"
    /\ MaySend(t, outcome)
    /\ IF outcome = "WebSocketDisconnect"
       THEN /\ task' = [task EXCEPT ![t] = Closed(AfterSend(@, outcome))]
            /\ Finally(t)
       ELSE /\ task' = [task EXCEPT ![t] =
                          IF outcome = "ok"
                          THEN [AfterSend(@, outcome) EXCEPT !.pc = "recv_ready"]
                          ELSE ToServerError(AfterSend(@, outcome))]
            /\ UNCHANGED <<serverCounters, monitorVars>>
    /\ UNCHANGED <<registryVars, negVars>>
    /\ UNCHANGED <<calls, now, broadcast>>

\* a slip: the message of the ready slot is answered like a ping
ReadySlot_answered(tk, frame) ==
    [tk EXCEPT !.message = frame, !.pc = "send_response",
               !.pending = Pong(frame)]
\* a slip: a message in the ready slot that is not a ready is fatal
ReadySlot_strict(tk, frame) ==
    IF frame.type = "ready" THEN [tk EXCEPT !.pc = "loop_recv"]
    ELSE ToServerError(tk)
\* _perform_handshake: a message in the ready slot that is not a ready is
\* logged as a warning, and the handshake is complete
ReadySlot(tk, frame) == [tk EXCEPT !.pc = "loop_recv"]

\* the confirmation is received: any JSON object completes the handshake,
\* the monitor is told and the message loop awaits its first message
RecvReady(t, frame) ==
    /\ task[t].pc = "recv_ready"
    /\ MayReceive(t)
    /\ LET tk == Receive(task[t], frame)
       IN  IF ~frame.json
           THEN /\ task' = [task EXCEPT ![t] = ToServerError(tk)]
                /\ UNCHANGED monitorVars
           ELSE /\ task' = [task EXCEPT ![t] =
                             IF HasAdapter(adapters, tk.negotiated_version)
                             THEN ReadySlot(tk, frame)
                             ELSE ToServerError(tk)]
                /\ track_connection_started(ConnectionId(t),
                                            tk.negotiated_version)
    /\ UNCHANGED <<registryVars, negVars, serverCounters>>
    /\ UNCHANGED <<calls, now, broadcast>>

\* len(repr(s)) of a str that has no quote and no backslash in it: its
\* characters and the two quotes
StrRepr(s) == Len(s) + 2

\* len(repr(x)) of a list or a dict of n items whose reprs have the lengths
\* of total together: the brackets, the items, ", " between them
Container(total, n) == 2 + total + 2 * Max(0, n - 1)

\* len(repr(xs)) of a list of strings
ListRepr(xs) == Container(Sum([i \in DOMAIN xs |-> StrRepr(xs[i])]), Len(xs))

\* the length of one item of a dict's repr: the key, ": ", the value
ItemRepr(key, value) == StrRepr(key) + 2 + value

\* the value every parameter of a tool call has in the frames of the model
ParameterValue == "x"

\* len(repr(parameters)) of the "parameters" object of a frame
ParametersRepr(parameters) ==
    Container(Sum([name \in parameters |->
                      ItemRepr(name, StrRepr(ParameterValue))]),
              Cardinality(parameters))

\* len(repr(capabilities)) of the "capabilities" object of a hello frame:
\* protocolVersion and version are strings, the other fields lists of strings
CapabilitiesRepr(capabilities) ==
    Container(Sum([name \in DOMAIN capabilities |->
                      ItemRepr(name,
                               IF name \in {"protocolVersion", "version"}
                               THEN StrRepr(capabilities[name])
                               ELSE ListRepr(capabilities[name]))]),
              Cardinality(DOMAIN capabilities))

\* _message_loop: message_size = len(str(message)), the length of the repr
\* of the parsed dict. The dict has the keys "type", "id" and "tool" the
\* frame has, "parameters" when the frame names a parameter, "capabilities"
\* when it carries a capability document.
MessageSize(frame) ==
    LET strings == {f \in {"type", "id", "tool"} : frame[f] # None}
        objects ==
            (IF frame.parameters # {}
             THEN <<ItemRepr("parameters", ParametersRepr(frame.parameters))>>
             ELSE <<>>)
            \o
            (IF DOMAIN frame.capabilities # {}
             THEN <<ItemRepr("capabilities",
                             CapabilitiesRepr(frame.capabilities))>>
             ELSE <<>>)
    IN  Container(Sum([f \in strings |-> ItemRepr(f, StrRepr(frame[f]))])
                    + SumSeq(objects),
                  Cardinality(strings) + Len(objects))

\* _handle_message: the reply to a message that is not a supported tool call
\* (_handle_tool_call's ValueError becomes the HANDLER_ERROR reply)
handle_message(tk, message) ==
    IF message.type = "tool_call" THEN HandlerError(message)
    ELSE IF message.type = "ping" THEN Pong(message)
    ELSE IF message.type = "get_capabilities" THEN Capabilities(message)
    ELSE IF message.type = "get_protocol_info"
    THEN IF HasAdapter(adapters, tk.negotiated_version)
         THEN ProtocolInfo(message) ELSE HandlerError(message)
    ELSE UnknownMessageType(message)

\* _handle_tool_call: the call reaches adapter.handle_tool_call
IsDispatched(tk, message) ==
    /\ message.type = "tool_call"
    /\ message.tool # None
    /\ message.tool \in get_adapter(adapters, tk.negotiated_version).tools

\* _message_loop from a receive to the next await: the reply to send, the
\* adapter call, or, for a frame that is not JSON, the error reply built
\* from the loop's previous message (a NameError when there is none, which
\* the bare except turns into break)
LoopRecv(t, frame) ==
    /\ task[t].pc = "loop_recv"
    /\ MayReceive(t)
    /\ LET tk == Receive(task[t], frame)
       IN  IF ~frame.json
           THEN IF tk.message = Unbound
                THEN /\ task' = [task EXCEPT ![t] = Closed(tk)]
                     /\ Finally(t)
                ELSE /\ task' = [task EXCEPT ![t] =
                                  [tk EXCEPT !.pc = "send_loop_error",
                                             !.pending = ProcessingError(tk.message)]]
                     /\ UNCHANGED <<serverCounters, monitorVars>>
           ELSE /\ task' = [task EXCEPT ![t] =
                             IF IsDispatched(tk, frame)
                             THEN [tk EXCEPT !.message = frame,
                                             !.pc = "tool_call",
                                             !.log = Append(@,
                                                 Dispatched(frame.tool,
                                                            tk.message_count))]
                             ELSE [tk EXCEPT !.message = frame,
                                             !.pc = "send_response",
                                             !.pending = handle_message(tk, frame)]]
                /\ total_messages' = total_messages + 1
                /\ track_message(ConnectionId(t), MessageSize(frame), FALSE)
                /\ UNCHANGED <<connections, total_connections,
                               connections_lock>>
    /\ UNCHANGED <<registryVars, negVars>>
    /\ UNCHANGED <<calls, now, broadcast>>

\* adapter.handle_tool_call returns or raises: the call is counted and the
\* reply is built
ToolCallReturns(t, service) ==
    /\ task[t].pc = "tool_call"
    /\ service \in ServiceOutcomes(task[t].message.tool)
    /\ LET message == task[t].message
           result == handle_tool_call(message.tool, message.parameters, service)
           \* end_time - start_time, on the clock of the model
           execution_time == now - now
       IN  /\ track_tool_call("unknown", message.tool, execution_time,
                              ~result.raised)
           /\ task' = [task EXCEPT ![t].pc = "send_response",
                                   ![t].pending =
                                       IF result.raised THEN ToolError(message)
                                       ELSE ToolResponse(message, result.error)]
    /\ UNCHANGED <<registryVars, negVars, serverCounters>>
    /\ UNCHANGED <<calls, now, broadcast>>

\* the send of a reply returns or raises
SendResponse(t, outcome) ==
    /\ task[t].pc = "send_response"
    /\ MaySend(t, outcome)
    /\ IF outcome = "WebSocketDisconnect"
       THEN /\ task' = [task EXCEPT ![t] = Closed(AfterSend(@, outcome))]
            /\ Finally(t)
       ELSE /\ task' = [task EXCEPT ![t] =
                          IF outcome = "ok"
                          THEN [AfterSend(@, outcome) EXCEPT !.pc = "loop_recv"]
                          ELSE [AfterSend(@, outcome) EXCEPT
                                   !.pc = "send_loop_error",
                                   !.pending =
                                       ProcessingError(task[t].message)]]
            /\ UNCHANGED <<serverCounters, monitorVars>>
    /\ UNCHANGED <<registryVars, negVars>>
    /\ UNCHANGED <<calls, now, broadcast>>

\* the send of the MESSAGE_PROCESSING_ERROR error returns, or raises and the
\* loop breaks
SendLoopError(t, outcome) ==
    /\ task[t].pc = "send_loop_error"
    /\ MaySend(t, outcome)
    /\ IF outcome = "ok"
       THEN /\ task' = [task EXCEPT ![t] =
                          [AfterSend(@, outcome) EXCEPT !.pc = "loop_recv"]]
            /\ UNCHANGED <<serverCounters, monitorVars>>
       ELSE /\ task' = [task EXCEPT ![t] = Closed(AfterSend(@, outcome))]
            /\ Finally(t)
    /\ UNCHANGED <<registryVars, negVars>>
    /\ UNCHANGED <<calls, now, broadcast>>

Next ==
    \/ \E t \in Transports : Start(t)
    \/ \E t \in Transports : Accept(t)
    \/ \E t \in Transports : Disconnect(t)
    \/ \E t \in Transports :
         \E frame \in ClientFrames(task[t].message_count + 1) :
            RecvHello(t, frame)
    \/ \E t \in Transports, outcome \in SendOutcomes :
         SendNegotiationFailed(t, outcome)
    \/ \E t \in Transports, outcome \in SendOutcomes :
         SendServerError(t, outcome)
    \/ \E t \in Transports, outcome \in SendOutcomes : SendHello(t, outcome)
    \/ \E t \in Transports :
         \E frame \in ClientFrames(task[t].message_count + 1) :
            RecvReady(t, frame)
    \/ \E t \in Transports :
         \E frame \in ClientFrames(task[t].message_count + 1) :
            LoopRecv(t, frame)
    \/ \E t \in Transports :
          \E service \in UNION {ServiceOutcomes(tool) : tool \in SupportedToolsV1} :
             ToolCallReturns(t, service)
    \/ \E t \in Transports, outcome \in SendOutcomes : SendResponse(t, outcome)
    \/ \E t \in Transports, outcome \in SendOutcomes : SendLoopError(t, outcome)

Spec == Init /\ [][Next]_vars

\* the frames of the clients of the specification with progress: a hello
\* the server accepts, one it refuses, the confirmation, a ping, a tool call
\* and a frame that is not JSON
LifecycleFrames(k) ==
    {HelloFrame([protocolVersion |-> "1.0"]),
     HelloFrame([supportedVersions |-> <<"0.5">>]),
     Frame("ready", None, None, {}, <<>>),
     Frame("ping", ToString(k), None, {}, <<>>),
     Frame("tool_call", ToString(k), "rag_search", {"query"}, <<>>),
     GarbageFrame}

\* the steps of the connection on transport t
TaskStep(t) ==
    \/ Start(t)
    \/ Accept(t)
    \/ Disconnect(t)
    \/ \E frame \in LifecycleFrames(task[t].message_count + 1) :
          RecvHello(t, frame)
    \/ \E outcome \in SendOutcomes : SendNegotiationFailed(t, outcome)
    \/ \E outcome \in SendOutcomes : SendServerError(t, outcome)
    \/ \E outcome \in SendOutcomes : SendHello(t, outcome)
    \/ \E frame \in LifecycleFrames(task[t].message_count + 1) :
          RecvReady(t, frame)
    \/ \E frame \in LifecycleFrames(task[t].message_count + 1) :
          LoopRecv(t, frame)
    \/ \E service \in UNION {ServiceOutcomes(tool) : tool \in SupportedToolsV1} :
          ToolCallReturns(t, service)
    \/ \E outcome \in SendOutcomes : SendResponse(t, outcome)
    \/ \E outcome \in SendOutcomes : SendLoopError(t, outcome)

NextLifecycle == \E t \in Transports : TaskStep(t)

\* The server with progress: the event loop resumes a task whose await has
\* completed (accept, a send, the adapter's call all return or raise), and
\* a client the server waits for sends a frame or closes the connection.
\* No connection stays open for ever.
FairSpec ==
    /\ Init
    /\ [][NextLifecycle]_vars
    /\ \A t \in Transports : WF_vars(TaskStep(t))

-----------------------------------------------------------------------------
(* The broadcast specification: the server specification with one call of  *)
(* broadcast_message (POST /mcp/broadcast) running beside the connections. *)

\* the message handed to broadcast_message
BroadcastMessage == Message("notification", Absent, Absent, None, None)

\* version_filter arguments: none, the empty string, or the version of the
\* adapter
VersionFilters == {None, "", "1.0"}

\* `if version_filter and ...`: None and the empty string filter nothing
FilterGiven(version_filter) == version_filter \notin {None, ""}

\* list(self._connections.values()): the connections in the order of the
\* dict, each named by its transport
Snapshot(conns) ==
    [i \in 1..Len(conns) |->
        CHOOSE t \in Transports : ConnectionId(t) = conns[i]]

\* a slip: a failed send ends the loop
BroadcastFailed_abort(b) == [b EXCEPT !.next = Len(b.snapshot) + 1]
\* except Exception: the error is logged and the loop goes on
BroadcastFailed(b) == [b EXCEPT !.next = @ + 1]

\* a send on a websocket the server has closed, or whose client_state is
\* not CONNECTED, raises before it suspends
RaisesAtOnce(tk) == tk.pc = "done" \/ tk.client_state # "CONNECTED"

\* the loop of broadcast_message from its position to its next suspension
\* (the await of send_text) or to its return
RECURSIVE BroadcastLoop(_)
BroadcastLoop(b) ==
    IF b.next > Len(b.snapshot)
    THEN [b EXCEPT !.pc = "done", !.returned = b.sent_count]
    ELSE LET t == b.snapshot[b.next]
             version == task[t].negotiated_version
             read == [b EXCEPT !.seen = Append(@, version)]
         IN  IF FilterGiven(b.version_filter) /\ version # b.version_filter
             THEN BroadcastLoop([read EXCEPT !.next = @ + 1])
             ELSE LET called == [read EXCEPT !.attempted = @ \cup {t}]
                  IN  IF RaisesAtOnce(task[t])
                      THEN BroadcastLoop(BroadcastFailed(called))
                      ELSE [called EXCEPT !.pc = "send"]

\* broadcast_message is called: the snapshot is taken under the lock and
\* the loop runs to its first send
BroadcastStart(version_filter) ==
    /\ broadcast.pc = "idle"
    /\ LockFree
    /\ connections_lock' = Released("broadcast")
    /\ broadcast' =
         BroadcastLoop([broadcast EXCEPT
                           !.version_filter = version_filter,
                           !.snapshot = Snapshot(connections)])
    /\ UNCHANGED <<registryVars, negVars, connections, total_connections,
                   total_messages, task, monitorVars, calls, now>>

\* the send_text the broadcast awaits returns or raises
BroadcastSent(outcome) ==
    /\ broadcast.pc = "send"
    /\ LET t == broadcast.snapshot[broadcast.next]
       IN  /\ outcome = "ok" => ~task[t].broken /\ task[t].pc # "done"
           /\ IF outcome = "ok"
              THEN /\ task' = [task EXCEPT ![t].log =
                                  Append(@, Sent(BroadcastMessage,
                                                 task[t].message_count))]
                   /\ broadcast' =
                        BroadcastLoop([broadcast EXCEPT
                                          !.pc = "loop",
                                          !.sent_count = @ + 1,
                                          !.next = @ + 1])
              ELSE /\ task' = [task EXCEPT ![t].broken = TRUE]
                   /\ broadcast' =
                        BroadcastLoop(BroadcastFailed(
                            [broadcast EXCEPT !.pc = "loop"]))
    /\ UNCHANGED <<registryVars, negVars, serverCounters, monitorVars, calls,
                   now>>

\* the frames of the clients of this specification: a hello the server
\* accepts, one it refuses, the confirmation, and a frame that is not JSON
HandshakeFrames ==
    {HelloFrame([protocolVersion |-> "1.0"]),
     HelloFrame([supportedVersions |-> <<"0.5">>]),
     Frame("ready", None, None, {}, <<>>),
     GarbageFrame}

\* the clients connect, shake hands and stay silent or leave; the traffic
\* of the message loop is in Spec
NextBroadcast ==
    \/ \E t \in Transports : Start(t)
    \/ \E t \in Transports : Accept(t)
    \/ \E t \in Transports : Disconnect(t)
    \/ \E t \in Transports, frame \in HandshakeFrames : RecvHello(t, frame)
    \/ \E t \in Transports, outcome \in SendOutcomes :
         SendNegotiationFailed(t, outcome)
    \/ \E t \in Transports, outcome \in SendOutcomes :
         SendServerError(t, outcome)
    \/ \E t \in Transports, outcome \in SendOutcomes : SendHello(t, outcome)
    \/ \E t \in Transports, frame \in HandshakeFrames : RecvReady(t, frame)
    \/ \E version_filter \in VersionFilters : BroadcastStart(version_filter)
    \/ \E outcome \in SendOutcomes : BroadcastSent(outcome)

SpecBroadcast == Init /\ [][NextBroadcast]_vars

\* The serving specification: connections through their whole life (the
\* frames of LifecycleFrames) and one call of broadcast_message with no
\* version filter beside them
NextServing ==
    \/ NextLifecycle
    \/ BroadcastStart(None)
    \/ \E outcome \in SendOutcomes : BroadcastSent(outcome)

SpecServing == Init /\ [][NextServing]_vars

-----------------------------------------------------------------------------
(* The monitor specification: an MCPMonitor of its own, called in any      *)
(* order with any ids, as its tests call it.                               *)

MonitorIds == {"a", "b"}
MonitorVersions == {"1.0", "1.1"}
MonitorTools == {"rag_search"}
MessageSizes == {2}
\* execution times of tool calls, in seconds: under and over max_response_time
ExecutionTimes == {1, 40}

\* the success_rate of get_metrics_summary, as the fraction it divides
SuccessRate(metrics) ==
    [num |-> metrics.successful_calls, den |-> Max(1, metrics.total_calls)]

\* get_metrics_summary: the counts it returns
get_metrics_summary ==
    [active |-> Cardinality(DOMAIN mon_connections),
     total_since_start |->
         Sum([v \in DOMAIN protocol_metrics |->
                 protocol_metrics[v].total_connections]),
     by_protocol |->
         [v \in DOMAIN protocol_metrics |->
             protocol_metrics[v].active_connections],
     tools |->
         [tool \in DOMAIN tool_metrics |->
             [total_calls |-> tool_metrics[tool].total_calls,
              success_rate |-> SuccessRate(tool_metrics[tool])]],
     protocols |->
         [v \in DOMAIN protocol_metrics |->
             [total_connections |-> protocol_metrics[v].total_connections,
              active_connections |-> protocol_metrics[v].active_connections,
              negotiation_failures |->
                  protocol_metrics[v].negotiation_failures]]]

\* a slip: a rate equal to the threshold counted as exceeding it
ErrorRateExceeded_inclusive(metrics) ==
    metrics.failed_calls * 100
        >= alert_thresholds.max_error_rate * metrics.total_calls
\* failed_calls / total_calls > max_error_rate
ErrorRateExceeded(metrics) ==
    metrics.failed_calls * 100
        > alert_thresholds.max_error_rate * metrics.total_calls

\* avg_execution_time > max_response_time, the average being
\* sum(recent_response_times) / len(recent_response_times)
SlowResponse(metrics) ==
    /\ metrics.recent_response_times # <<>>
    /\ SumSeq(metrics.recent_response_times)
         > alert_thresholds.max_response_time
             * Len(metrics.recent_response_times)

\* get_health_status: the issues (one record each; subject is the tool or
\* the list of stale connections), the status and the count it returns
get_health_status ==
    LET total_active ==
            Sum([v \in DOMAIN protocol_metrics |->
                    protocol_metrics[v].active_connections])
        cutoff_time == now - alert_thresholds.connection_timeout
        stale_connections ==
            {id \in DOMAIN mon_connections :
                mon_connections[id].last_activity < cutoff_time}
        issues ==
            (IF total_active > alert_thresholds.max_connections
             THEN {[type |-> "high_connection_count", severity |-> "warning",
                    subject |-> {}]}
             ELSE {})
            \cup
            {[type |-> "high_error_rate", severity |-> "critical",
              subject |-> {tool}] :
                tool \in {n \in DOMAIN tool_metrics :
                            /\ tool_metrics[n].total_calls > 0
                            /\ ErrorRateExceeded(tool_metrics[n])}}
            \cup
            {[type |-> "slow_response", severity |-> "warning",
              subject |-> {tool}] :
                tool \in {n \in DOMAIN tool_metrics :
                            SlowResponse(tool_metrics[n])}}
            \cup
            (IF stale_connections # {}
             THEN {[type |-> "stale_connections", severity |-> "info",
                    subject |-> stale_connections]}
             ELSE {})
    IN  [status |->
            IF \E issue \in issues : issue.severity = "critical"
            THEN "unhealthy"
            ELSE IF \E issue \in issues : issue.severity = "warning"
            THEN "degraded"
            ELSE "healthy",
         active_connections |-> total_active,
         total_issues |-> Cardinality(issues),
         issues |-> issues]

\* a call, with the summary a query would have returned just before it
Call(op, connection_id, protocol_version) ==
    [op |-> op, connection_id |-> connection_id,
     protocol_version |-> protocol_version, before |-> get_metrics_summary]

InitMon ==
    /\ best = NoBest
    /\ adapters = <<>>
    /\ compatibility_matrix = DefaultCompatibilityMatrix
    /\ registry_compatibility_matrix = <<>>
    /\ neg_caps = None
    /\ neg_result = None
    /\ ServerInit
    /\ MonitorInit

TrackConnectionStarted(connection_id, protocol_version) ==
    /\ Len(calls) < MaxCalls
    /\ track_connection_started(connection_id, protocol_version)
    /\ calls' = Append(calls, Call("started", connection_id, protocol_version))
    /\ UNCHANGED <<registryVars, negVars, serverVars, now, broadcast>>

TrackConnectionEnded(connection_id) ==
    /\ Len(calls) < MaxCalls
    /\ track_connection_ended(connection_id)
    /\ calls' = Append(calls, Call("ended", connection_id, None))
    /\ UNCHANGED <<registryVars, negVars, serverVars, now, broadcast>>

TrackMessage(connection_id, size_bytes, is_outbound) ==
    /\ Len(calls) < MaxCalls
    /\ track_message(connection_id, size_bytes, is_outbound)
    /\ calls' = Append(calls, Call("message", connection_id, None))
    /\ UNCHANGED <<registryVars, negVars, serverVars, now, broadcast>>

TrackToolCall(connection_id, tool_name, execution_time, success) ==
    /\ Len(calls) < MaxCalls
    /\ track_tool_call(connection_id, tool_name, execution_time, success)
    /\ calls' = Append(calls, Call("tool_call", connection_id, None))
    /\ UNCHANGED <<registryVars, negVars, serverVars, now, broadcast>>

TrackHandshakeFailure(protocol_version) ==
    /\ Len(calls) < MaxCalls
    /\ track_handshake_failure(protocol_version)
    /\ calls' = Append(calls, Call("handshake_failure", None, protocol_version))
    /\ UNCHANGED <<registryVars, negVars, serverVars, now, broadcast>>

\* await monitor.cleanup_old_data()
CleanupOldData ==
    /\ Len(calls) < MaxCalls
    /\ cleanup_old_data(RetentionHours)
    /\ calls' = Append(calls, Call("cleanup_old_data", None, None))
    /\ UNCHANGED <<registryVars, negVars, serverVars, now, broadcast>>

\* monitor.set_alert_threshold(threshold_name, value)
SetAlertThreshold(threshold_name, value) ==
    /\ Len(calls) < MaxCalls
    /\ set_alert_threshold(threshold_name, value)
    /\ calls' = Append(calls, Call("set_alert_threshold", None, None))
    /\ UNCHANGED <<registryVars, negVars, serverVars, now, broadcast>>

\* versions a handshake failure is reported for: one the monitor may have
\* connections of, one it has none of
FailureVersions == {"1.0", "2.0"}

\* set_alert_threshold arguments: a lower connection timeout, a lower
\* error rate (in percent), and a name the monitor does not know
ThresholdSettings ==
    {<<"connection_timeout", 10>>, <<"max_error_rate", 5>>,
     <<"max_latency", 1>>}

NextMon ==
    \/ \E id \in MonitorIds, v \in MonitorVersions : TrackConnectionStarted(id, v)
    \/ \E id \in MonitorIds : TrackConnectionEnded(id)
    \/ \E id \in MonitorIds, size \in MessageSizes, out \in BOOLEAN :
         TrackMessage(id, size, out)
    \/ \E id \in {"a", "unknown"}, tool \in MonitorTools, success \in BOOLEAN :
         \E execution_time \in ExecutionTimes :
            TrackToolCall(id, tool, execution_time, success)
    \/ \E v \in FailureVersions : TrackHandshakeFailure(v)

SpecMon == InitMon /\ [][NextMon]_vars

-----------------------------------------------------------------------------
(* The health specification: a monitor that has already seen traffic, the  *)
(* clock running, the thresholds changed by set_alert_threshold. Each      *)
(* initial state is the state of a fresh monitor after the calls named     *)
(* with it.                                                                *)

\* clock advances of the health specification
MaxTicks == 1

HealthTools == {"rag_search", "document_list"}

\* the monitor after n calls track_connection_started("a", "1.0", ...)
AfterStarts(n) ==
    IF n = 0
    THEN /\ mon_connections = <<>>
         /\ protocol_metrics = <<>>
    ELSE /\ mon_connections = Put(<<>>, "a", ConnectionMetrics("1.0"))
         /\ protocol_metrics =
              Put(<<>>, "1.0", [ProtocolMetrics EXCEPT
                                   !.total_connections = n,
                                   !.active_connections = n])

\* the monitor after n calls track_tool_call(_, "rag_search", time, _), the
\* first failed of them failing
AfterToolCalls(n, failed, time) ==
    IF n = 0
    THEN tool_metrics = <<>>
    ELSE tool_metrics =
           Put(<<>>, "rag_search",
               [total_calls |-> n, successful_calls |-> n - failed,
                failed_calls |-> failed,
                recent_response_times |-> [i \in 1..n |-> time]])

\* (calls, failed calls, execution time of each): none; a failure rate of
\* exactly max_error_rate; a full window at exactly max_response_time
ToolHistories ==
    {<<0, 0, 0>>, <<10, 1, 1>>,
     <<RecentWindow, 0, AlertMaxResponseTime>>}

InitHealth ==
    /\ best = NoBest
    /\ adapters = <<>>
    /\ compatibility_matrix = DefaultCompatibilityMatrix
    /\ registry_compatibility_matrix = <<>>
    /\ neg_caps = None
    /\ neg_result = None
    /\ ServerInit
    /\ connection_history = <<>>
    /\ alert_thresholds = DefaultAlertThresholds
    /\ calls = <<>>
    /\ now = 0
    /\ \E n \in {0, AlertMaxConnections} : AfterStarts(n)
    /\ \E h \in ToolHistories : AfterToolCalls(h[1], h[2], h[3])

\* time passes, in at most MaxTicks advances of a size
Tick(seconds) ==
    /\ now + seconds <= MaxTicks * seconds
    /\ now' = now + seconds
    /\ UNCHANGED <<registryVars, negVars, serverVars, monitorVars, calls,
                   broadcast>>

NextHealth ==
    \/ TrackConnectionStarted("a", "1.0")
    \/ TrackConnectionEnded("a")
    \/ TrackMessage("a", 2, FALSE)
    \/ \E tool \in HealthTools, success \in BOOLEAN :
         \E execution_time \in ExecutionTimes :
            TrackToolCall("unknown", tool, execution_time, success)
    \/ \E setting \in ThresholdSettings :
         SetAlertThreshold(setting[1], setting[2])
    \/ \E seconds \in {AlertConnectionTimeout, AlertConnectionTimeout + 1} :
         Tick(seconds)

SpecHealth == InitHealth /\ [][NextHealth]_vars

-----------------------------------------------------------------------------
(* The query specification: a fresh monitor, the tracking calls, the       *)
(* maintenance calls (cleanup_old_data, set_alert_threshold), the clock    *)
(* and the three queries.                                                  *)

\* a slip: the connections get_health_status finds stale are dropped
ReportStale_ended(live, stale_connections) ==
    [id \in DOMAIN live \ stale_connections |-> live[id]]
\* get_health_status: the ids of the stale connections go into a list of
\* the issue; the live map is only read
ReportStale(live, stale_connections) == live

\* await monitor.get_health_status()
GetHealthStatus ==
    /\ Len(calls) < MaxCalls
    /\ mon_connections' =
         ReportStale(mon_connections,
                     {id \in DOMAIN mon_connections :
                        mon_connections[id].last_activity
                           < now - alert_thresholds.connection_timeout})
    /\ UNCHANGED <<connection_history, tool_metrics, protocol_metrics,
                   alert_thresholds>>
    /\ calls' = Append(calls, Call("get_health_status", None, None))
    /\ UNCHANGED <<registryVars, negVars, serverVars, now, broadcast>>

\* await monitor.get_metrics_summary()
GetMetricsSummary ==
    /\ Len(calls) < MaxCalls
    /\ UNCHANGED monitorVars
    /\ calls' = Append(calls, Call("get_metrics_summary", None, None))
    /\ UNCHANGED <<registryVars, negVars, serverVars, now, broadcast>>

\* await monitor.get_connection_details(connection_id)
GetConnectionDetails(connection_id) ==
    /\ Len(calls) < MaxCalls
    /\ UNCHANGED monitorVars
    /\ calls' = Append(calls, Call("get_connection_details", connection_id,
                                   None))
    /\ UNCHANGED <<registryVars, negVars, serverVars, now, broadcast>>

NextQuery ==
    \/ \E id \in MonitorIds : TrackConnectionStarted(id, "1.0")
    \/ \E id \in MonitorIds : TrackConnectionEnded(id)
    \/ TrackMessage("a", 2, FALSE)
    \/ \E success \in BOOLEAN : TrackToolCall("unknown", "rag_search", 1, success)
    \/ \E v \in FailureVersions : TrackHandshakeFailure(v)
    \/ CleanupOldData
    \/ \E setting \in ThresholdSettings :
         SetAlertThreshold(setting[1], setting[2])
    \/ \E seconds \in {AlertConnectionTimeout, AlertConnectionTimeout + 1,
                        RetentionHours * 3600} :
         Tick(seconds)
    \/ GetHealthStatus
    \/ GetMetricsSummary
    \/ \E id \in MonitorIds : GetConnectionDetails(id)

SpecQuery == InitMon /\ [][NextQuery]_vars

-----------------------------------------------------------------------------
(* Properties of connections, read off each connection's log.              *)

Log(t) == task[t].log
Entries(t) == 1..Len(Log(t))
IsSent(e) == e.ev = "send"
IsReceived(e) == e.ev = "recv"
IsDispatch(e) == e.ev = "dispatch"

\* the first frame of t was a hello whose negotiation fails
NegotiationFails(t) ==
    /\ Len(Log(t)) >= 1
    /\ IsReceived(Log(t)[1])
    /\ Log(t)[1].type = "hello"
    /\ negotiate_protocol(adapters, compatibility_matrix,
                          task[t].client_capabilities) = {NoCompatibleVersion}

\* the first frame of t was a JSON message of a type other than hello
FirstMessageNotHello(t) ==
    /\ Len(Log(t)) >= 1
    /\ IsReceived(Log(t)[1])
    /\ Log(t)[1].type \notin {"hello", "garbage"}

\* the task has returned, and every send it awaited was delivered
ReturnedUnbroken(t) ==
    /\ task[t].pc = "done"
    /\ task[t].client_state = "CONNECTED"
    /\ ~task[t].broken

\* C1: the number of live connections never exceeds max_connections,
\* whatever the interleaving of the handle_connection calls.
C1_CapacityNeverExceeded == Len(connections) <= MaxConnections

\* C2: on every connection, a tool_response or tool_error is sent only after
\* the hello reply, the hello reply only after a client hello was received,
\* and a tool call is dispatched only once the connection is Ready (the hello
\* reply sent and the frame of the ready slot received after it).
C2_HandshakeOrder ==
    \A t \in Transports : \A i \in Entries(t) :
        LET e == Log(t)[i]
        IN  /\ (IsSent(e) /\ e.type \in {"tool_response", "tool_error"})
                 => \E j \in 1..(i - 1) :
                       IsSent(Log(t)[j]) /\ Log(t)[j].type = "hello"
            /\ (IsSent(e) /\ e.type = "hello")
                 => \E j \in 1..(i - 1) :
                       IsReceived(Log(t)[j]) /\ Log(t)[j].type = "hello"
            /\ IsDispatch(e)
                 => \E j \in 1..(i - 1) : \E r \in (j + 1)..(i - 1) :
                       /\ IsSent(Log(t)[j]) /\ Log(t)[j].type = "hello"
                       /\ IsReceived(Log(t)[r]) /\ Log(t)[r].re < e.re

\* a connection that completed the handshake and was sent a tool_response
C2_Witness ==
    \E t \in Transports : \E i \in Entries(t) :
        /\ IsSent(Log(t)[i]) /\ Log(t)[i].type = "tool_response"
        /\ \E j \in 1..(i - 1) : IsDispatch(Log(t)[j])

\* C3: when the first message of a connection is not a hello, the server
\* replies with an error of code PROTOCOL_VIOLATION and closes, and neither
\* negotiates nor dispatches a tool for that connection.
C3_ProtocolViolationReply ==
    \A t \in Transports :
        FirstMessageNotHello(t) =>
            /\ task[t].negotiated_version = None
            /\ \A i \in Entries(t) : ~IsDispatch(Log(t)[i])
            /\ ReturnedUnbroken(t) =>
                 /\ task[t].close_code = 1000
                 /\ \E i \in Entries(t) :
                       /\ IsSent(Log(t)[i])
                       /\ Log(t)[i].type = "error"
                       /\ Log(t)[i].code = "PROTOCOL_VIOLATION"

\* C4: when negotiation fails, the first message the server sends is an
\* error of code PROTOCOL_NEGOTIATION_FAILED carrying the registered
\* versions; no hello reply is sent, the message loop is never entered, no
\* version is recorded, and the connection is removed and closed.
C4_NegotiationFailure ==
    \A t \in Transports :
        NegotiationFails(t) =>
            /\ task[t].negotiated_version = None
            /\ task[t].pc \in {"send_neg_failed", "send_server_error", "done"}
            /\ \A i \in Entries(t) :
                  /\ ~IsDispatch(Log(t)[i])
                  /\ ~(IsSent(Log(t)[i]) /\ Log(t)[i].type = "hello")
            /\ (task[t].pc # "send_neg_failed" /\ ~task[t].broken) =>
                  /\ Len(Log(t)) >= 2
                  /\ Log(t)[2] =
                       Sent(NegotiationFailed(get_supported_versions(adapters)), 1)
            /\ task[t].pc = "done" => ConnectionId(t) \notin ConnectionIds
            /\ ReturnedUnbroken(t) => task[t].close_code = 1000

\* a connection refused by the negotiator, told so, and closed
C4_Witness ==
    \E t \in Transports :
        /\ NegotiationFails(t)
        /\ ReturnedUnbroken(t)
        /\ Len(Log(t)) >= 2
        /\ Log(t)[2].code = "PROTOCOL_NEGOTIATION_FAILED"
        /\ Log(t)[2].supported_versions = <<"1.0">>

-----------------------------------------------------------------------------
(* The version order the specification states, written down independently  *)
(* of the parsing code: the tuple of numbers of a dotted-numeric version.  *)

IsDottedNumeric(v) == v # "beta"

DottedNumeric(v) ==
    CASE v = "0.5"  -> <<0, 5>>
      [] v = "0.9"  -> <<0, 9>>
      [] v = "1.0"  -> <<1, 0>>
      [] v = "1.1"  -> <<1, 1>>
      [] v = "1.9"  -> <<1, 9>>
      [] v = "1.10" -> <<1, 10>>
      [] v = "2.0"  -> <<2, 0>>

RECURSIVE NumLeq(_, _)
NumLeq(a, b) ==
    IF a = <<>> THEN TRUE
    ELSE IF b = <<>> THEN FALSE
    ELSE IF Head(a) = Head(b) THEN NumLeq(Tail(a), Tail(b))
    ELSE Head(a) < Head(b)

\* v <= w in version order; a version that is not dotted-numeric is
\* comparable with nothing
VersionLeq(v, w) ==
    /\ IsDottedNumeric(v)
    /\ IsDottedNumeric(w)
    /\ NumLeq(DottedNumeric(v), DottedNumeric(w))

IsGreatest(v, S) == v \in S /\ \A w \in S : VersionLeq(w, v)
IsOldest(v, S) == v \in S /\ \A w \in S : VersionLeq(v, w)

\* the negotiation that has been made, its inputs and its steps
Negotiated == neg_result # None
ClientVersions == SeqToSet(extract_client_versions(neg_caps))
ClientFeatures == extract_client_features(neg_caps)
ServerVersions == SeqToSet(get_supported_versions(adapters))
ExactMatches == ClientVersions \cap ServerVersions
HasTrueEdge(v, c) ==
    <<v, c>> \in DOMAIN compatibility_matrix /\ compatibility_matrix[<<v, c>>]
ToolsOf(v) == UNION {adapters[i].tools : i \in {k \in 1..Len(adapters) : adapters[k].version = v}}
\* server versions with a true edge to a client version and every required tool
CompatibleCandidates ==
    {v \in ServerVersions :
        /\ \E c \in ClientVersions : HasTrueEdge(v, c)
        /\ ClientFeatures \subseteq ToolsOf(v)}

\* C5: a client that declares only versions that are neither registered nor
\* linked to a registered version by a true compatibility edge is refused
\* with the no-compatible-version error.
C5_UnlinkedClientRefused ==
    (/\ Negotiated
     /\ \A c \in ClientVersions :
            /\ c \notin ServerVersions
            /\ \A v \in ServerVersions : ~HasTrueEdge(v, c))
    => neg_result = NoCompatibleVersion

\* C6: when client and server versions intersect, the result is the greatest
\* element of the intersection in dotted-numeric order, whatever the order of
\* the client's list or of the registrations.
C6_ExactMatchIsMaximum ==
    (Negotiated /\ ExactMatches # {}) => IsGreatest(neg_result, ExactMatches)

\* an exact match decided between two versions that string order and numeric
\* order rank differently
C6_Witness ==
    /\ Negotiated
    /\ {"1.9", "1.10"} \subseteq ExactMatches
    /\ neg_result = "1.10"

\* C7: with no exact match, the result is the greatest (numeric order) server
\* version that has a true edge to a client version and supports the client's
\* features, whenever there is one.
C7_CompatibleIsGreatest ==
    (Negotiated /\ ExactMatches = {} /\ CompatibleCandidates # {})
    => IsGreatest(neg_result, CompatibleCandidates)

\* C8: when neither the exact-match step nor the compatibility step selects,
\* the result is the oldest server version exactly when it is <= some client
\* version, and the failure otherwise.
C8_FallbackRule ==
    (Negotiated /\ ExactMatches = {} /\ CompatibleCandidates = {})
    => IF \E v \in ServerVersions :
              IsOldest(v, ServerVersions) /\ \E c \in ClientVersions : VersionLeq(v, c)
       THEN IsOldest(neg_result, ServerVersions)
       ELSE neg_result = NoCompatibleVersion

\* the fallback taken with two adapters registered and a newer client
C8_Witness ==
    /\ Negotiated
    /\ ExactMatches = {} /\ CompatibleCandidates = {}
    /\ Len(adapters) = 2
    /\ neg_result = "1.0"
    /\ "2.0" \in ClientVersions

\* the frame a message was sent in answer to
Request(t, e) ==
    Log(t)[CHOOSE r \in Entries(t) : IsReceived(Log(t)[r]) /\ Log(t)[r].re = e.re]

\* entry i of t's log comes after the hello reply
AfterHello(t, i) ==
    \E j \in 1..(i - 1) : IsSent(Log(t)[j]) /\ Log(t)[j].type = "hello"

\* C9: a message sent on an established connection in answer to a client
\* message with id = x carries id = x, and no message carries, as id or as
\* request_id, the id of a request other than the one it answers.
C9_ReplyEchoesId ==
    \A t \in Transports : \A i \in Entries(t) :
        LET e == Log(t)[i]
            x == Request(t, e).id
        IN  (IsSent(e) /\ AfterHello(t, i)) =>
              /\ x # None => e.id = x
              /\ e.id \in {Absent, x}
              /\ e.request_id \in {Absent, x}

\* the adapter fails on the tool call of this message
AdapterFails(message) ==
    \A service \in ServiceOutcomes(message.tool) :
        LET result == handle_tool_call(message.tool, message.parameters,
                                       service)
        IN  result.raised \/ result.error # None

\* C10: a tool call that fails inside the adapter is answered with a
\* tool_error of code TOOL_EXECUTION_ERROR, never with a tool_response, and
\* the monitor has counted a failed call of that tool.
C10_AdapterFailureIsToolError ==
    /\ \A t \in Transports : \A i \in Entries(t) :
          (IsSent(Log(t)[i]) /\ Log(t)[i].type = "tool_response")
             => Log(t)[i].result = None
    /\ \A t \in Transports :
          (/\ task[t].pc = "send_response"
           /\ IsDispatched(task[t], task[t].message)
           /\ AdapterFails(task[t].message))
             => /\ task[t].pending.type = "tool_error"
                /\ task[t].pending.code = "TOOL_EXECUTION_ERROR"
                /\ task[t].message.tool \in DOMAIN tool_metrics
                /\ tool_metrics[task[t].message.tool].failed_calls >= 1

\* entry i of t's log belongs to the message loop: the hello reply and the
\* frame of the ready slot come before it
InLoop(t, i) ==
    \E j \in 1..(i - 1) : \E r \in (j + 1)..(i - 1) :
        /\ IsSent(Log(t)[j]) /\ Log(t)[j].type = "hello"
        /\ IsReceived(Log(t)[r])

\* the tools of the adapter of t's negotiated version
NegotiatedTools(t) == get_adapter(adapters, task[t].negotiated_version).tools

\* C11: on a Ready connection, a tool_call naming a tool outside the
\* negotiated adapter's tool set is never handed to the adapter, is answered
\* with an error of code UNSUPPORTED_TOOL, and the connection then waits for
\* its next message.
C11_UnsupportedToolReply ==
    \A t \in Transports : \A i \in Entries(t) :
        LET e == Log(t)[i]
        IN  (/\ InLoop(t, i)
             /\ IsReceived(e)
             /\ e.type = "tool_call"
             /\ e.tool \notin NegotiatedTools(t))
            => /\ \A j \in Entries(t) :
                    ~(IsDispatch(Log(t)[j]) /\ Log(t)[j].re = e.re)
               /\ \A j \in Entries(t) :
                    (IsSent(Log(t)[j]) /\ Log(t)[j].re = e.re)
                       => /\ Log(t)[j].type \in {"error", "tool_error"}
                          /\ Log(t)[j].code = "UNSUPPORTED_TOOL"
               /\ (i = Len(Log(t))) => task[t].pc = "send_response"

\* C12: on a Ready connection, a frame that cannot be received or processed
\* (one that is not valid JSON included) is answered with an error message,
\* wherever in the message loop it arrives, and the connection is not closed.
C12_LoopErrorAnswered ==
    \A t \in Transports :
        LET n == Len(Log(t))
        IN  (/\ n >= 1
             /\ InLoop(t, n)
             /\ IsReceived(Log(t)[n])
             /\ Log(t)[n].type = "garbage")
            => /\ task[t].pc = "send_loop_error"
               /\ task[t].pending.type = "error"
               /\ ConnectionId(t) \in ConnectionIds

\* t is turned away by the step: it leaves its start with close code 1013
Rejected(t) ==
    /\ task[t].pc = "new"
    /\ task'[t].pc = "done"
    /\ task'[t].close_code = 1013

\* C13: a transport that starts while the live set holds max_connections
\* connections is closed with code 1013 before any message is read from it,
\* is never added to the live set, and the step changes neither the lifetime
\* connection count nor anything the monitor holds.
C13_RejectedWhenFull ==
    [][\A t \in Transports :
          (/\ task[t].pc = "new"
           /\ task'[t] # task[t]
           /\ Len(connections) >= MaxConnections)
          => /\ Rejected(t)
             /\ task'[t].message_count = 0
             /\ task'[t].log = <<>>
             /\ ConnectionId(t) \notin ConnectionIds'
             /\ total_connections' = total_connections
             /\ UNCHANGED monitorVars]_vars

\* a transport turned away with 1013 while another connection is live
C13_Witness ==
    \E t \in Transports :
        /\ task[t].pc = "done"
        /\ task[t].close_code = 1013
        /\ task[t].log = <<>>
        /\ connections # <<>>
        /\ ConnectionId(t) \notin ConnectionIds

\* C14: while a tool call of a connection is executing, the connection keeps
\* receiving: as long as its client may send a frame, the message loop can
\* take that frame (and answer a ping) before the tool call returns.
C14_ReceivesDuringToolCall ==
    \A t \in Transports :
        (task[t].pc = "tool_call" /\ MayReceive(t))
           => ENABLED (\E frame \in ClientFrames(task[t].message_count + 1) :
                          LoopRecv(t, frame))

\* what the server and the monitor hold for the connection of t
LiveEntry(t) ==
    [live |-> ConnectionId(t) \in ConnectionIds,
     monitored |-> IF ConnectionId(t) \in DOMAIN mon_connections
                   THEN <<mon_connections[ConnectionId(t)]>> ELSE <<>>]

\* t has ended on a fault: its transport broke or it was sent an error
Faulted(t) ==
    /\ task[t].pc = "done"
    /\ \/ task[t].broken
       \/ \E i \in Entries(t) : IsSent(Log(t)[i]) /\ Log(t)[i].type = "error"

\* C15: a step of connection A, faults included (handshake violation,
\* negotiation failure, transport error, tool error, internal error), leaves
\* every other connection B as it was: its state, negotiated version and
\* pending reply, its membership of the live set and its monitor entry.
C15_FaultIsolation ==
    [][\A a \in Transports : \A b \in Transports \ {a} :
          task'[a] # task[a]
             => /\ task'[b] = task[b]
                /\ LiveEntry(b)' = LiveEntry(b)]_vars

\* A ended on a fault while B is live in the message loop
C15_Witness ==
    \E a \in Transports : \E b \in Transports \ {a} :
        /\ Faulted(a)
        /\ task[b].pc = "loop_recv"
        /\ task[b].negotiated_version = "1.0"
        /\ ConnectionId(b) \in ConnectionIds

\* C16: for every tool, total_calls = successful_calls + failed_calls, and
\* the success rate of the summary is successful_calls / total_calls.
C16_ToolCallConservation ==
    \A tool \in DOMAIN tool_metrics :
        LET m == tool_metrics[tool]
            rate == get_metrics_summary.tools[tool].success_rate
        IN  /\ m.total_calls = m.successful_calls + m.failed_calls
            /\ m.total_calls >= 1
            /\ rate.den # 0
            /\ rate.num * m.total_calls = m.successful_calls * rate.den

\* a tool with one successful and one failed call: success rate 1/2
C16_Witness ==
    /\ "rag_search" \in DOMAIN tool_metrics
    /\ tool_metrics["rag_search"].successful_calls = 1
    /\ tool_metrics["rag_search"].failed_calls = 1
    /\ get_metrics_summary.tools["rag_search"].success_rate = [num |-> 1, den |-> 2]

\* the started events not yet matched by an ended event, per connection id,
\* oldest first: an ended event matches the latest unmatched start of its id
RECURSIVE Outstanding(_)
Outstanding(cs) ==
    IF cs = <<>> THEN [id \in MonitorIds |-> <<>>]
    ELSE LET prev == Outstanding(SubSeq(cs, 1, Len(cs) - 1))
             c == cs[Len(cs)]
         IN  IF c.op = "started"
             THEN [prev EXCEPT ![c.connection_id] = Append(@, c.protocol_version)]
             ELSE IF c.op = "ended" /\ prev[c.connection_id] # <<>>
             THEN [prev EXCEPT ![c.connection_id] = SubSeq(@, 1, Len(@) - 1)]
             ELSE prev

UnmatchedStarts(v) ==
    LET out == Outstanding(calls)
    IN  Sum([id \in MonitorIds |->
               Cardinality({i \in 1..Len(out[id]) : out[id][i] = v})])

ActiveConnections(v) ==
    IF v \in DOMAIN protocol_metrics
    THEN protocol_metrics[v].active_connections ELSE 0

\* C17: after any sequence of started and ended events, each version's
\* active_connections is the number of its started events not yet matched
\* by an ended event.
C17_ActiveIsStartedNotEnded ==
    \A v \in MonitorVersions : ActiveConnections(v) = UnmatchedStarts(v)

\* the last two calls were started and ended for the same id
StartedThenEnded ==
    /\ Len(calls) >= 2
    /\ calls[Len(calls) - 1].op = "started"
    /\ calls[Len(calls)].op = "ended"
    /\ calls[Len(calls)].connection_id = calls[Len(calls) - 1].connection_id

\* the summary's by_protocol count of v, 0 for a version it does not list
ByProtocol(summary, v) ==
    IF v \in DOMAIN summary.by_protocol THEN summary.by_protocol[v] ELSE 0

\* C18: started followed by ended for the same id leaves the active counts,
\* per version and in the summary, as they were before the start, and adds
\* one to the lifetime total.
C18_StartEndRestoresActive ==
    StartedThenEnded =>
        LET before == calls[Len(calls) - 1].before
            after == get_metrics_summary
        IN  /\ \A v \in MonitorVersions :
                  ByProtocol(after, v) = ByProtocol(before, v)
            /\ after.active = before.active
            /\ after.total_since_start = before.total_since_start + 1

\* C19: no connection id is both in the live-connection map and in the
\* ended-connection history.
C19_LiveNotInHistory ==
    \A i \in 1..Len(connection_history) :
        connection_history[i].connection_id \notin DOMAIN mon_connections

\* C20: while a connection is live, its message_count, bytes_sent,
\* bytes_received and errors never decrease.
C20_CountersNeverDecrease ==
    [][\A id \in DOMAIN mon_connections \cap DOMAIN mon_connections' :
          /\ mon_connections'[id].message_count >= mon_connections[id].message_count
          /\ mon_connections'[id].bytes_sent >= mon_connections[id].bytes_sent
          /\ mon_connections'[id].bytes_received >= mon_connections[id].bytes_received
          /\ mon_connections'[id].errors >= mon_connections[id].errors]_vars

-----------------------------------------------------------------------------
(* Health classification, stated from the thresholds in force.             *)

\* tools whose share of failed calls is above max_error_rate
FailingTools ==
    {tool \in DOMAIN tool_metrics :
        /\ tool_metrics[tool].total_calls >= 1
        /\ 100 * tool_metrics[tool].failed_calls
             > alert_thresholds.max_error_rate * tool_metrics[tool].total_calls}

\* tools whose average latency, over the rolling window, is above
\* max_response_time
SlowTools ==
    {tool \in DOMAIN tool_metrics :
        LET window == tool_metrics[tool].recent_response_times
        IN  /\ Len(window) >= 1
            /\ SumSeq(window) > alert_thresholds.max_response_time * Len(window)}

\* live connections whose last activity is older than connection_timeout
StaleConnections ==
    {id \in DOMAIN mon_connections :
        now - mon_connections[id].last_activity
            > alert_thresholds.connection_timeout}

StaleIssues ==
    {issue \in get_health_status.issues : issue.type = "stale_connections"}

\* C21: health() is unhealthy exactly when some tool with at least one call
\* fails more often than max_error_rate; otherwise degraded exactly when the
\* active connection count it reports exceeds max_connections or some tool's
\* average latency exceeds max_response_time; otherwise healthy. The stale
\* connections are listed as one info issue and the status does not depend
\* on them.
C21_HealthClassification ==
    LET health == get_health_status
    IN  /\ health.status =
             IF FailingTools # {} THEN "unhealthy"
             ELSE IF health.active_connections > alert_thresholds.max_connections
                     \/ SlowTools # {}
             THEN "degraded"
             ELSE "healthy"
        /\ \A issue \in health.issues :
               issue.severity = "info" <=> issue.type = "stale_connections"
        /\ {issue.subject : issue \in StaleIssues} =
             IF StaleConnections = {} THEN {} ELSE {StaleConnections}

\* a degraded monitor that lists a stale connection
C21_Witness ==
    /\ calls # <<>>
    /\ get_health_status.status = "degraded"
    /\ StaleIssues # {}

-----------------------------------------------------------------------------
(* The registry.                                                           *)

\* C22: once an adapter is registered for a version, no later call replaces
\* it: a register_adapter for that version fails and the adapter stays.
C22_RegisteredAdapterKept ==
    [][\A i \in 1..Len(adapters) :
          /\ HasAdapter(adapters', adapters[i].version)
          /\ get_adapter(adapters', adapters[i].version) = adapters[i]]_vars

\* C23: versions() lists the registered versions in ascending numeric-tuple
\* order, whatever the order of registration.
C23_VersionsAscending ==
    LET versions == get_supported_versions(adapters)
    IN  \A i \in 1..Len(versions) : \A j \in 1..Len(versions) :
            i < j => /\ VersionLeq(versions[i], versions[j])
                     /\ versions[i] # versions[j]

\* the registry's compatible(v, c)
RegistryEdge(v, c) ==
    /\ <<v, c>> \in DOMAIN registry_compatibility_matrix
    /\ registry_compatibility_matrix[<<v, c>>]

\* C24: find_best(client_versions) is the greatest registered client version;
\* when no client version is registered, the greatest registered version
\* that is compatible with some client version; otherwise none.
C24_FindBestIsMaximum ==
    best.called =>
        LET client == SeqToSet(best.client_versions)
            exact == client \cap ServerVersions
            linked == {v \in ServerVersions :
                          \E c \in client : RegistryEdge(v, c)}
        IN  IF exact # {} THEN IsGreatest(best.result, exact)
            ELSE IF linked # {} THEN IsGreatest(best.result, linked)
            ELSE best.result = None

-----------------------------------------------------------------------------
(* Compatibility edges and exact matches.                                  *)

\* the client of the document declares a version that is registered
DecidedByExactMatch(capabilities) ==
    SeqToSet(extract_client_versions(capabilities)) \cap ServerVersions # {}

\* C25: a step that adds or changes a compatibility edge, in the negotiator
\* or in the registry, leaves the version negotiated for every client that
\* is decided by exact match as it was.
C25_EdgeKeepsExactMatch ==
    [][(/\ adapters' = adapters
        /\ \/ compatibility_matrix' # compatibility_matrix
           \/ registry_compatibility_matrix' # registry_compatibility_matrix)
       => \A capabilities \in CapabilityPool :
             DecidedByExactMatch(capabilities) =>
                negotiate_protocol(adapters', compatibility_matrix',
                                   capabilities)
                  = negotiate_protocol(adapters, compatibility_matrix,
                                       capabilities)]_vars

\* an exact-match negotiation made after an edge was added that links
\* another registered version to a version of the client
C25_Witness ==
    /\ Negotiated
    /\ ExactMatches # {}
    /\ neg_result \in ExactMatches
    /\ \E v \in ServerVersions : \E c \in ClientVersions :
          /\ v # neg_result
          /\ HasTrueEdge(v, c)
          /\ <<v, c>> \notin DOMAIN DefaultCompatibilityMatrix

-----------------------------------------------------------------------------
(* The versions a client declares.                                         *)

VersionFields == {"protocolVersion", "supportedVersions", "versions", "version"}

\* the versions of the first field present, in the order protocolVersion,
\* supportedVersions, versions, version; 1.0 when there is none
DeclaredVersions(capabilities) ==
    CASE "protocolVersion" \in DOMAIN capabilities
           -> <<capabilities["protocolVersion"]>>
      [] /\ "protocolVersion" \notin DOMAIN capabilities
         /\ "supportedVersions" \in DOMAIN capabilities
           -> capabilities["supportedVersions"]
      [] /\ {"protocolVersion", "supportedVersions"} \cap DOMAIN capabilities = {}
         /\ "versions" \in DOMAIN capabilities
           -> capabilities["versions"]
      [] /\ {"protocolVersion", "supportedVersions", "versions"}
               \cap DOMAIN capabilities = {}
         /\ "version" \in DOMAIN capabilities
           -> <<capabilities["version"]>>
      [] VersionFields \cap DOMAIN capabilities = {} -> <<"1.0">>

\* the document that declares the given versions in supportedVersions and
\* is otherwise the given one
Declaring(versions, capabilities) ==
    ("supportedVersions" :> versions)
    @@ [f \in DOMAIN capabilities \ VersionFields |-> capabilities[f]]

\* C26: a negotiation uses the versions of the first version field present
\* (protocolVersion, supportedVersions, versions, version): its result is the
\* result for a client that lists exactly those versions. A client with no
\* version field is treated as declaring 1.0, and gets 1.0 from a server
\* that registers it.
C26_ClientVersionsExtracted ==
    Negotiated =>
        /\ neg_result \in
             negotiate_protocol(adapters, compatibility_matrix,
                                Declaring(DeclaredVersions(neg_caps), neg_caps))
        /\ (VersionFields \cap DOMAIN neg_caps = {}
              /\ HasAdapter(adapters, "1.0"))
             => neg_result = "1.0"

\* a client that sends both a preferred version and a list gets its
\* preferred version although the server registers the listed one as well
C26_Witness ==
    /\ Negotiated
    /\ {"protocolVersion", "supportedVersions"} \subseteq DOMAIN neg_caps
    /\ neg_result = neg_caps["protocolVersion"]
    /\ \E i \in 1..Len(neg_caps["supportedVersions"]) :
          /\ neg_caps["supportedVersions"][i] # neg_result
          /\ HasAdapter(adapters, neg_caps["supportedVersions"][i])

-----------------------------------------------------------------------------
(* Broadcast.                                                              *)

\* the connections a broadcast sent its message to, read from their logs
Notified ==
    {t \in Transports :
        \E i \in 1..Len(task[t].log) :
            /\ task[t].log[i].ev = "send"
            /\ task[t].log[i].type = BroadcastMessage.type}

\* the connections of the snapshot whose negotiated version, when the loop
\* reached them, passed the filter
Matching(b) ==
    {b.snapshot[i] : i \in {j \in 1..Len(b.snapshot) :
                              \/ ~FilterGiven(b.version_filter)
                              \/ b.seen[j] = b.version_filter}}

\* C27: a broadcast that has returned called send_message on every
\* connection of its snapshot whose negotiated version equals the filter
\* (on all of them when no filter is given), whether or not an earlier send
\* failed, and returned the number of connections its message was sent to.
C27_BroadcastReachesAll ==
    broadcast.pc = "done" =>
        /\ Len(broadcast.seen) = Len(broadcast.snapshot)
        /\ broadcast.attempted = Matching(broadcast)
        /\ Notified \subseteq broadcast.attempted
        /\ broadcast.returned = Cardinality(Notified)

\* a broadcast over two connections has returned 1: the send to the first
\* connection failed, the send to the second one succeeded
C27_Witness ==
    /\ broadcast.pc = "done"
    /\ Len(broadcast.snapshot) = 2
    /\ broadcast.attempted = {broadcast.snapshot[1], broadcast.snapshot[2]}
    /\ Notified = {broadcast.snapshot[2]}
    /\ broadcast.returned = 1

-----------------------------------------------------------------------------
(* Messages of the message loop that no branch of _handle_message names.   *)

\* the message types _handle_message routes
KnownMessageTypes ==
    {"tool_call", "ping", "get_capabilities", "get_protocol_info"}

\* entry i of t's log is a JSON message of an unknown type received in the
\* message loop
UnknownInLoop(t, i) ==
    /\ InLoop(t, i)
    /\ IsReceived(Log(t)[i])
    /\ Log(t)[i].type \notin KnownMessageTypes \cup {"garbage"}

\* entry j of t's log is the UNKNOWN_MESSAGE_TYPE reply to entry i
IsUnknownTypeReply(t, i, j) ==
    /\ IsSent(Log(t)[j])
    /\ Log(t)[j].re = Log(t)[i].re
    /\ Log(t)[j].type = "error"
    /\ Log(t)[j].code = "UNKNOWN_MESSAGE_TYPE"
    /\ Log(t)[j].id = Log(t)[i].id

\* C28: on a Ready connection, a message whose type is none of tool_call,
\* ping, get_capabilities, get_protocol_info is never handed to the adapter;
\* the reply built for it is an error of code UNKNOWN_MESSAGE_TYPE with the
\* message's id, nothing else is sent in answer to it, and once the reply
\* is sent the connection waits for its next message (unless the client has
\* left).
C28_UnknownTypeRejected ==
    \A t \in Transports : \A i \in Entries(t) :
        UnknownInLoop(t, i) =>
            /\ \A j \in Entries(t) :
                  ~(IsDispatch(Log(t)[j]) /\ Log(t)[j].re = Log(t)[i].re)
            /\ \A j \in Entries(t) :
                  (IsSent(Log(t)[j]) /\ Log(t)[j].re = Log(t)[i].re)
                     => IsUnknownTypeReply(t, i, j)
            /\ (i = Len(Log(t)) /\ ~task[t].broken)
                  => /\ task[t].pc = "send_response"
                     /\ task[t].pending = UnknownMessageType(task[t].message)
                     /\ task[t].pending.code = "UNKNOWN_MESSAGE_TYPE"
                     /\ task[t].pending.id = Log(t)[i].id
            /\ (i + 1 = Len(Log(t)) /\ IsSent(Log(t)[i + 1]))
                  => \/ task[t].pc = "loop_recv"
                     \/ task[t].client_state = "DISCONNECTED"

\* a Ready connection was sent the UNKNOWN_MESSAGE_TYPE reply to a message
\* of an unknown type and waits for its next message
C28_Witness ==
    \E t \in Transports : \E i \in Entries(t) :
        /\ UnknownInLoop(t, i)
        /\ i + 1 = Len(Log(t))
        /\ IsUnknownTypeReply(t, i, i + 1)
        /\ task[t].pc = "loop_recv"
        /\ task[t].client_state = "CONNECTED"

-----------------------------------------------------------------------------
(* The ready slot.                                                         *)

\* entry r of t's log is the message received in the ready slot (the first
\* frame after the hello reply), and it is a JSON message that is not a
\* ready
NonReadyInSlot(t, r) ==
    /\ r > 1
    /\ IsSent(Log(t)[r - 1]) /\ Log(t)[r - 1].type = "hello"
    /\ IsReceived(Log(t)[r])
    /\ Log(t)[r].type \notin {"ready", "garbage"}

\* the message loop has taken up the message at entry k of t's log: it is
\* being answered or executed, or its reply or its dispatch is the next
\* entry
TakenUp(t, k) ==
    IF k = Len(Log(t))
    THEN task[t].broken \/ task[t].pc \in {"send_response", "tool_call"}
    ELSE /\ IsSent(Log(t)[k + 1]) \/ IsDispatch(Log(t)[k + 1])
         /\ Log(t)[k + 1].re = Log(t)[k].re

\* C29: a message of a type other than ready received after the hello
\* reply closes nothing: nothing is sent in answer to it, the connection
\* is registered with the monitor and waits in the message loop (unless
\* the client has left), and every JSON message received after it is taken
\* up by the message loop.
C29_NonReadyEntersReady ==
    \A t \in Transports : \A r \in Entries(t) :
        NonReadyInSlot(t, r) =>
            /\ \A j \in Entries(t) :
                  ~((IsSent(Log(t)[j]) \/ IsDispatch(Log(t)[j]))
                    /\ Log(t)[j].re = Log(t)[r].re)
            /\ r = Len(Log(t))
                  => \/ /\ task[t].pc = "loop_recv"
                        /\ task[t].close_code = 0
                        /\ ConnectionId(t) \in ConnectionIds
                        /\ ConnectionId(t) \in DOMAIN mon_connections
                     \/ task[t].client_state = "DISCONNECTED"
            /\ \A k \in (r + 1)..Len(Log(t)) :
                  (IsReceived(Log(t)[k]) /\ Log(t)[k].type # "garbage")
                     => TakenUp(t, k)

\* after a ping in the ready slot, a ping was answered with a pong and the
\* connection waits for its next message
C29_Witness ==
    \E t \in Transports : \E r \in Entries(t) :
        /\ NonReadyInSlot(t, r)
        /\ Log(t)[r].type = "ping"
        /\ Len(Log(t)) = r + 2
        /\ IsReceived(Log(t)[r + 1])
        /\ IsSent(Log(t)[r + 2]) /\ Log(t)[r + 2].type = "pong"
        /\ task[t].pc = "loop_recv"

-----------------------------------------------------------------------------
(* The end of a connection.                                                *)

\* the connection of transport t is in the server's live set
Live(t) == ConnectionId(t) \in ConnectionIds

\* handle_connection has returned for t, and its connection is neither in
\* the server's live set nor among the monitor's live connections
Removed(t) ==
    /\ task[t].pc = "done"
    /\ ConnectionId(t) \notin ConnectionIds
    /\ ConnectionId(t) \notin DOMAIN mon_connections

\* C30: every accepted connection is eventually removed from the server's
\* live set and from the monitor's live connections, whichever way it ends
\* (client disconnect, first message not a hello, negotiation failure,
\* internal error, failed send), and stays removed.
C30_EveryConnectionRemoved ==
    \A t \in Transports : Live(t) ~> [] Removed(t)

\* the ways a connection has ended, read from what its task recorded
EndedByDisconnect(t) ==
    task[t].pc = "done" /\ task[t].client_state = "DISCONNECTED"
EndedByError(t) ==
    /\ task[t].pc = "done"
    /\ \E i \in Entries(t) : IsSent(Log(t)[i]) /\ Log(t)[i].code = "SERVER_ERROR"
EndedByFailedSend(t) ==
    task[t].pc = "done" /\ task[t].broken /\ task[t].client_state = "CONNECTED"

\* two connections were accepted and have ended, one by an error the server
\* reported and one by a send that failed; both are removed
C30_Witness ==
    /\ total_connections = 2
    /\ \A t \in Transports : Removed(t)
    /\ \E t \in Transports : EndedByError(t)
    /\ \E t \in Transports : EndedByFailedSend(t)

-----------------------------------------------------------------------------
(* Negotiation failures in the monitor.                                    *)

\* the negotiation failures summary() shows, over all versions
NegotiationFailuresShown(summary) ==
    Sum([v \in DOMAIN summary.protocols |->
            summary.protocols[v].negotiation_failures])

\* the step in which a hello's negotiation fails and the monitor is told
NegotiationFailureEvent ==
    \E t \in Transports :
        /\ task[t].pc = "recv_hello"
        /\ task'[t].pc = "send_neg_failed"

\* C31: after every negotiation-failure event the negotiation-failure count
\* of summary() is strictly greater than before it, also when the monitor
\* has no protocol metrics yet.
C31_NegotiationFailureCounted ==
    [][NegotiationFailureEvent =>
         NegotiationFailuresShown(get_metrics_summary')
            > NegotiationFailuresShown(get_metrics_summary)]_vars

-----------------------------------------------------------------------------
(* Queries of the monitor.                                                 *)

QueryOps == {"get_health_status", "get_metrics_summary",
             "get_connection_details"}

\* the step is a query of the monitor
QueryStep ==
    /\ Len(calls') = Len(calls) + 1
    /\ calls'[Len(calls')].op \in QueryOps

\* C35: health(), summary() and connection_details() leave the monitor's
\* live connections, history, tool metrics and protocol metrics as they
\* were; a stale connection is reported and stays live.
C35_QueriesChangeNothing ==
    [][QueryStep => UNCHANGED monitorVars]_vars

\* get_health_status has just reported a stale connection, which is still
\* among the live connections
C35_Witness ==
    /\ calls # <<>>
    /\ calls[Len(calls)].op = "get_health_status"
    /\ \E issue \in get_health_status.issues :
          /\ issue.type = "stale_connections"
          /\ issue.subject # {}
          /\ issue.subject \subseteq DOMAIN mon_connections

-----------------------------------------------------------------------------
(* The negotiator's matrix and the registry's edges.                       *)

\* C32: for every registered server version v and every client version c,
\* the negotiator counts (v, c) as compatible exactly when the registry's
\* are_compatible(v, c) is true; a pair with no recorded edge is
\* incompatible.
C32_NegotiatorReadsRegistry ==
    \A v \in SeqToSet(get_supported_versions(adapters)) :
        \A c \in ClientVersionPool :
            are_versions_compatible(compatibility_matrix, v, c)
                = are_compatible(registry_compatibility_matrix, v, c)

-----------------------------------------------------------------------------
(* The last message of a failed negotiation.                               *)

\* the messages the server has sent on t, oldest first
SentOn(t) == SelectSeq(Log(t), IsSent)

\* C33: after a negotiation failure the server sends one message only, the
\* error of code PROTOCOL_NEGOTIATION_FAILED; nothing follows it before the
\* close.
C33_NegotiationErrorIsLast ==
    \A t \in Transports :
        NegotiationFails(t) =>
            /\ Len(SentOn(t)) <= 1
            /\ \A i \in 1..Len(SentOn(t)) :
                  SentOn(t)[i].code = "PROTOCOL_NEGOTIATION_FAILED"

-----------------------------------------------------------------------------
(* The lock of the connection map.                                         *)

\* the awaits of transport reads
ReadPcs == {"recv_hello", "recv_ready", "loop_recv"}

\* C34: whenever the tasks are suspended (on a transport read, a transport
\* write or a tool dispatch) the connection-map lock is free, so an accept
\* that has returned can insert, a disconnect can clean up and a broadcast
\* can take its snapshot without waiting for the lock.
C34_LockFreeWhileSuspended ==
    /\ connections_lock = None
    /\ \A t \in Transports : task[t].pc = "accept" => ENABLED Accept(t)
    /\ \A t \in Transports : task[t].pc \in ReadPcs => ENABLED Disconnect(t)
    /\ broadcast.pc = "idle" => ENABLED BroadcastStart(None)

\* one connection is suspended in a tool dispatch, another on a read, and
\* the broadcast on a write after taking its snapshot of both
C34_Witness ==
    /\ broadcast.pc = "send"
    /\ Len(broadcast.snapshot) = 2
    /\ \E t1, t2 \in Transports :
          /\ task[t1].pc = "tool_call"
          /\ task[t2].pc \in ReadPcs

-----------------------------------------------------------------------------
(* Features of the chosen version.                                         *)

\* C36: whenever negotiation succeeds for a client that declared features,
\* the adapter of the chosen version supports every one of them, whichever
\* step chose the version.
C36_ChosenVersionHasFeatures ==
    (/\ Negotiated
     /\ neg_result # NoCompatibleVersion
     /\ ClientFeatures # {})
        => ClientFeatures \subseteq ToolsOf(neg_result)

-----------------------------------------------------------------------------
(* The monitor's live connections and the server's.                        *)

\* C37: every connection id the monitor holds as live is in the server's
\* live set, and the monitor holds it under the version the server
\* negotiated for it.
C37_MonitorWithinServer ==
    \A t \in Transports :
        ConnectionId(t) \in DOMAIN mon_connections =>
            /\ ConnectionId(t) \in ConnectionIds
            /\ mon_connections[ConnectionId(t)].protocol_version
                 = task[t].negotiated_version

\* one connection is live in the server and in the monitor, and another,
\* which the monitor had registered, has ended and is in neither
C37_Witness ==
    \E t1, t2 \in Transports :
        /\ ConnectionId(t1) \in DOMAIN mon_connections
        /\ ConnectionId(t1) \in ConnectionIds
        /\ task[t2].pc = "done"
        /\ ConnectionId(t2) \notin ConnectionIds
        /\ ConnectionId(t2) \notin DOMAIN mon_connections
        /\ \E i \in 1..Len(connection_history) :
              connection_history[i].connection_id = ConnectionId(t2)

-----------------------------------------------------------------------------
(* Broadcasts and the handshake.                                           *)

\* C38: a broadcast with no version filter sends only to connections that
\* have completed the handshake: on every connection, a broadcast message
\* comes after the server's hello reply and after the message of the ready
\* slot.
C38_BroadcastAfterHandshake ==
    ~FilterGiven(broadcast.version_filter) =>
        \A t \in Transports : \A i \in Entries(t) :
            (IsSent(Log(t)[i]) /\ Log(t)[i].type = BroadcastMessage.type)
                => InLoop(t, i)

-----------------------------------------------------------------------------
(* The two active counts.                                                  *)

\* C39: in every monitor state the active count health() reports (the sum
\* of active_connections over the versions) equals the active count
\* summary() reports (the size of the live-connection map).
C39_ActiveCountsAgree ==
    get_health_status.active_connections = get_metrics_summary.active

-----------------------------------------------------------------------------
(* The message consumed in the ready slot.                                 *)

\* entry r of t's log is a tool_call or a ping received in the ready slot
CallInSlot(t, r) ==
    NonReadyInSlot(t, r) /\ Log(t)[r].type \in {"tool_call", "ping"}

\* the JSON messages t's message loop has received
LoopMessages(t) ==
    {k \in Entries(t) :
        /\ InLoop(t, k)
        /\ IsReceived(Log(t)[k])
        /\ Log(t)[k].type # "garbage"}

\* the number of tool calls handed to the adapter, on all connections
Dispatches ==
    Sum([t \in Transports |->
            Cardinality({k \in Entries(t) : IsDispatch(Log(t)[k])})])

\* C40: a tool_call or ping the server consumes in the ready slot is never
\* dispatched: no tool is executed for it, the monitor counts neither a
\* message nor a tool call for it, and no message carrying its id is sent.
C40_SlotMessageNotDispatched ==
    \A t \in Transports : \A r \in Entries(t) :
        CallInSlot(t, r) =>
            /\ \A j \in Entries(t) :
                  /\ ~(IsDispatch(Log(t)[j]) /\ Log(t)[j].re = Log(t)[r].re)
                  /\ IsSent(Log(t)[j])
                       => /\ Log(t)[j].re # Log(t)[r].re
                          /\ Log(t)[j].id # Log(t)[r].id
                          /\ Log(t)[j].request_id # Log(t)[r].id
            /\ ConnectionId(t) \in DOMAIN mon_connections
                  => mon_connections[ConnectionId(t)].message_count
                        = Cardinality(LoopMessages(t))
            /\ Sum([tool \in DOMAIN tool_metrics |->
                       tool_metrics[tool].total_calls])
                  <= Dispatches

\* after a tool_call in the ready slot the connection has answered a ping;
\* no tool was executed and the monitor has counted one message
C40_Witness ==
    \E t \in Transports : \E r \in Entries(t) :
        /\ CallInSlot(t, r)
        /\ Log(t)[r].type = "tool_call"
        /\ Len(Log(t)) = r + 2
        /\ IsSent(Log(t)[r + 2]) /\ Log(t)[r + 2].type = "pong"
        /\ tool_metrics = <<>>
        /\ ConnectionId(t) \in DOMAIN mon_connections
        /\ mon_connections[ConnectionId(t)].message_count = 1

=============================================================================
